---- MODULE Spec2Model ----
(***************************************************************************)
(* Rate-limited batch mutation scripts for a remote graph store            *)
(* (mananshah567/try_ai_v2).  Thirteen subsystems are modelled, each with    *)
(* its own specification over its own variables:                           *)
(*   SpecThrottle  RUThrottler.throttle                (gremlin_v1/v3)     *)
(*   SpecWalk      the pagination walks                (load_existing_...) *)
(*   SpecClear     the discover-and-delete full clear  (delete_v5/v4/v2,   *)
(*                                                      gremlin_v3)        *)
(*   SpecUpload    the incremental-sync uploads        (upload_v2, ...)    *)
(*   SpecSync      the phases of an upload run         (gremlin_v1,        *)
(*                                                      upload_v1)         *)
(*   SpecPool      the thread pool of the parallel     (parallel_delete_2, *)
(*                 deletes and uploads                  parallel_upload_1) *)
(*   SpecChunk     the chunked delete of known ids     (delete_v1/v4)      *)
(*   SpecRetry     the retry loop of one batch         (parallel_delete_2, *)
(*                                                      parallel_upload_1) *)
(*   SpecIndex     the shared set of uploaded keys     (loader_and_...,    *)
(*                 under a thread pool                  parallel_upload_1) *)
(*   SpecCount     the shared counter of the parallel  (parallel_delete_1, *)
(*                 deletes                              parallel_delete_2) *)
(*   SpecDrain     the loop of a delete-all phase      (delete_v5/v3,      *)
(*                 under a store that may keep failing  gremlin_v3)        *)
(*   SpecCharge    the cost handed to throttle after a (delete_v1, ...)    *)
(*                 request                                                 *)
(*   SpecKey       the upload filter of the edges       (upload_v2,        *)
(*                 over ids that hold the separator      gremlin_v1)       *)
(* SpecClock is SpecThrottle with a wall clock that may also be set back   *)
(* while throttle sleeps.                                                  *)
(* Time is counted in ticks, Second ticks to the second.  Page sizes,      *)
(* costs and collections are scaled down to small integers.                *)
(***************************************************************************)
EXTENDS Integers, Sequences, FiniteSets, TLC

VARIABLES
    \* ---- RUThrottler
    now,            \* time.time(), in ticks
    ru_limit,       \* RUThrottler.ru_limit
    window_start,   \* RUThrottler.window_start
    ru_consumed,    \* RUThrottler.ru_consumed
    charges,        \* history: <<time, cost>> of the costs recorded in the last second
    slept,          \* history: ticks slept by the last throttle call
    total_ops,      \* RUThrottler.total_ops: the calls of throttle so far
    t_calls,        \* history: the costs of the calls of the current window
    t_last,         \* history: what the last throttle call saw and asked for
    clock_steps,    \* history: times the system clock was set back
    \* ---- pagination walks (load_existing_...)
    w_variant,      \* which walk runs
    items,          \* the store's collection: a set of distinct sort keys
    batch_size,     \* batch_size
    minimal_batch,  \* minimal_batch (load_existing_vertices_v2)
    max_retries,    \* max_retries
    backoff_base,   \* backoff_base, in ticks
    current_batch,  \* current_batch: the page size in use
    attempt,        \* attempt (the for loops) / fetch_attempts (v2)
    last_graph_id,  \* keyset cursor, 0 for None
    continuation,   \* continuation token, 0 for None
    offset,         \* offset cursor
    inserted,       \* the set the walk returns
    w_pc,           \* "off" | "fetch" | "returned" | "raised"
    pages,          \* history: the items of the pages consumed, in order
    requested,      \* history: the cursor of every request sent
    delays,         \* history: the backoff delays slept for the current page
    page_attempts,  \* history: requests sent for the current page
    w_failures,     \* history: failed requests so far
    w_signal,       \* history: the signal of the last failed request, or "none"
    empty_pages,    \* history: empty pages the store returned with a next-token
    w_end,          \* history: "none" | "last_page" | "early" | "aborted" | "raised"
    \* ---- full clear (delete_all_vertices_in_batches)
    c_variant,      \* "v5" (delete_v5) | "v4" (delete_v4) | "v2" (delete_v2) |
                    \* "g3" (gremlin_v3.clear_graph)
    c_batch,        \* batch_size
    c_max_retries,  \* max_retries
    left,           \* the store: entities present, per phase
    c_phase,        \* "edges" | "vertices": the delete-all function running
    c_pc,           \* "off" | "fetch" | "drop" | "done" | "raised"
    c_attempt,      \* attempt
    c_ids,          \* len(ids): the size of the page fetched
    deleted,        \* deleted, per phase: the count the function returns
    dropped,        \* history: entities the store dropped, per phase
    c_failures,     \* history: failed requests so far
    abandoned,      \* history: drop batches given up after max_retries
    edge_walk_exhausted,  \* history: an edge page fetch returned an empty page
    vertex_drop_sent,     \* history: a vertex-delete request was submitted
    present,        \* history: entities present when the phase started, per phase
    c_flying,       \* delete_v2: ids of the drop script submitted and not yet executed
    \* ---- incremental-sync upload
    u_variant,      \* "v2" (upload_v2) | "p1" (parallel_upload_1) | "g1" (gremlin_v1)
    pending_v,      \* vertices / df_vertices: the ids of the pending vertices
    pending_e,      \* edges / df_edges: the pending edges
    u_batch,        \* batch_size
    u_max_retries,  \* max_retries
    store_v,        \* the store: ids of its vertices
    store_e,        \* the store: its edges
    inserted_vertex_ids,  \* the Dedup Index of vertices
    inserted_edge_keys,   \* the Dedup Index of edges
    run,            \* 1 | 2: which of the two successive runs
    u_phase,        \* "vertices" | "edges"
    u_pc,           \* "off" | "start" | "upload" | "done" | "raised"
    to_insert,      \* to_insert / to_upload / the rows left: work left in the phase
    u_attempt,      \* attempt
    u_failures,     \* history: failed requests so far
    last_outcome,   \* history: how the last step's request ended
    requests,       \* history: upload requests issued, per run
    known,          \* history: inserted_vertex_ids as the run's vertex upload found it
    uploads,        \* history: the vertices the run has issued an upload for, in order
    \* ---- the phases of an incremental sync (run_graph_upload)
    s_variant,      \* "g1" (gremlin_v1.run_graph_upload) | "v1" (upload_v1)
    s_pages,        \* pages each load phase fetches, the empty one included
    s_nv,           \* vertex-upload requests the run has to send
    s_ne,           \* edge-upload requests the run has to send
    s_pc,           \* the function running: "load_vertices" | ... | "done"
    s_left,         \* requests the running function has still to send
    s_flying,       \* upload requests submitted whose result has not arrived, per kind
    s_issued,       \* history: upload requests issued, per kind
    \* ---- worker pool (parallel_delete_edges, then parallel_delete_vertices)
    p_workers,      \* workers
    p_batches,      \* batches chunked() yields, per kind
    p_max_retries,  \* max_retries
    p_main,         \* the caller: "off" | "edges" | "vertices" | "done"
    p_queued,       \* futures no worker has started yet, per kind
    p_finished,     \* futures that are done, per kind
    p_deleted,      \* deleted, per kind: the count the function returns
    pw_pc,          \* where each worker is inside _drop_batch
    pw_kind,        \* the kind of batch each worker runs
    pw_attempt,     \* attempt, per worker
    pw_count,       \* count, per worker
    pw_tmp,         \* the value of ru_consumed a worker has read for its "+="
    pw_wake,        \* the time at which a worker's time.sleep returns
    p_recorded,     \* history: costs recorded since window_start was last set
    p_failures,     \* history: failed requests so far
    \* ---- deletion of known ids in batches (delete_vertices_in_batches)
    k_variant,      \* "d1" (delete_v1) | "d4" (delete_v4)
    k_ids,          \* vertex_ids: the list of ids to delete
    k_batch,        \* batch_size
    k_rest,         \* what the iterator of chunked() has not yielded yet
    k_deleted,      \* deleted
    k_pc,           \* "off" | "loop" | "returned" | "raised"
    k_sent,         \* history: the sizes of the delete requests dispatched
    k_batches,      \* history: the batches chunked() has yielded, in order
    k_failures,     \* history: failed requests so far
    \* ---- the retry loop of one batch (_drop_batch, _upload_batch)
    r_variant,      \* "pd2" (parallel_delete_2) | "pu1" (parallel_upload_1)
    r_max_retries,  \* max_retries
    r_backoff_base, \* backoff_base, in seconds
    r_len,          \* len(batch_ids) / len(batch)
    r_attempt,      \* attempt
    r_count,        \* count
    r_pc,           \* "off" | "try" | "lock" | "returned"
    r_counted,      \* deleted / uploaded: the shared count
    r_delays,       \* history: the waits slept, in order
    r_errors,       \* history: the signals of the failed attempts, in order
    \* ---- the shared set of uploaded keys under a worker pool
    i_variant,      \* "lu" | "pu1" | "df2"
    i_workers,      \* workers
    i_batch,        \* batch_size
    i_max_retries,  \* max_retries
    i_index,        \* inserted_vertex_ids
    i_queue,        \* the futures not started yet: their batches, in order
    i_lock,         \* the threads that hold lock: none or one
    i_writers,      \* the threads inside inserted_vertex_ids.add
    i_uploaded,     \* uploaded
    i_results,      \* df2: the results of the futures as_completed has yet to yield
    i_failures,     \* history: failed requests so far
    it_pc,          \* where each thread is
    it_batch,       \* per thread: the keys its loop has yet to go through
    it_count,       \* count, per thread
    it_attempt,     \* attempt, per thread
    \* ---- the shared counter of the parallel deletes
    n_variant,      \* "pd1" (parallel_delete_1) | "pd2" (parallel_delete_2)
    n_workers,      \* workers
    n_total,        \* len(all_edge_ids)
    n_batch,        \* batch_size
    n_max_retries,  \* max_retries (pd2)
    n_queue,        \* the futures not started yet: the sizes of their batches
    n_lock,         \* the threads that hold the lock
    n_deleted,      \* deleted
    n_succeeded,    \* history: the sizes of the batches whose drop succeeded, summed
    n_failures,     \* history: failed requests so far
    n_main,         \* "off" | "wait" | "returned"
    nt_pc,          \* where each worker is inside _drop_batch
    nt_len,         \* len(batch_ids), per worker
    nt_count,       \* count, per worker
    nt_attempt,     \* attempt, per worker
    nt_tmp,         \* per worker: the sum it is about to store in deleted
    \* ---- the loop of a delete-all phase
    d_variant,      \* "v5" (delete_v5) | "v3" (delete_v3) | "g3" (gremlin_v3)
    d_batch,        \* batch_size
    d_max_retries,  \* max_retries (v5)
    d_left,         \* the edges the store holds
    d_pc,           \* "off" | "fetch" | "drop" | "returned" | "raised"
    d_attempt,      \* attempt
    d_ids,          \* len(ids) of the batch fetched
    \* ---- the cost handed to throttle after a request
    q_variant,      \* "d1" (delete_v1) | "nc1" (node_edge_checked_v1) | "g1" (gremlin_v1)
    q_left,         \* the batches / rows the loop has yet to go through
    q_pc,           \* "off" | "loop" | "returned" | "raised"
    q_calls,        \* history: per request, what the store reported and the
                    \* costs of the throttle calls that followed
    q_failures,     \* history: failed requests so far
    \* ---- the upload filter of the edges
    ek_variant,     \* "u2" (upload_v2) | "g1" (gremlin_v1)
    ek_batch,       \* batch_size (upload_v2)
    ek_store,       \* the edges the store holds
    ek_pending,     \* edges / df_edges: the input of the upload
    ek_index,       \* inserted_edge_keys
    ek_pc,          \* "off" | "filter" | "upload" | "rows" | "returned" | "raised"
    ek_todo,        \* to_insert (upload_v2) / the rows yet to come (gremlin_v1)
    ek_skipped,     \* history: the edges the filter left out
    ek_failures     \* history: failed requests so far

thist == <<total_ops, t_calls, t_last, clock_steps>>
tvars == <<now, ru_limit, window_start, ru_consumed, charges, slept, thist>>
wparams == <<w_variant, items, batch_size, minimal_batch, max_retries, backoff_base>>
wvars == <<wparams, current_batch, attempt, last_graph_id, continuation, offset,
           inserted, w_pc, pages, requested, delays, page_attempts, w_failures,
           w_signal, empty_pages, w_end>>
cparams == <<c_variant, c_batch, c_max_retries>>
cvars == <<cparams, left, c_phase, c_pc, c_attempt, c_ids, deleted, dropped, c_failures,
           abandoned, edge_walk_exhausted, vertex_drop_sent, present, c_flying>>
uparams == <<u_variant, pending_v, pending_e, u_batch, u_max_retries>>
uvars == <<uparams, store_v, store_e, inserted_vertex_ids, inserted_edge_keys, run,
           u_phase, u_pc, to_insert, u_attempt, u_failures, last_outcome, requests,
           known, uploads>>
sparams == <<s_variant, s_pages, s_nv, s_ne>>
svars == <<sparams, s_pc, s_left, s_flying, s_issued>>
pparams == <<p_workers, p_batches, p_max_retries>>
pvars == <<pparams, p_main, p_queued, p_finished, p_deleted, pw_pc, pw_kind,
           pw_attempt, pw_count, pw_tmp, pw_wake, p_recorded, p_failures>>
kparams == <<k_variant, k_ids, k_batch>>
kvars == <<kparams, k_rest, k_deleted, k_pc, k_sent, k_batches, k_failures>>
rparams == <<r_variant, r_max_retries, r_backoff_base, r_len>>
rvars == <<rparams, r_attempt, r_count, r_pc, r_counted, r_delays, r_errors>>
iparams == <<i_variant, i_workers, i_batch, i_max_retries>>
ivars == <<iparams, i_index, i_queue, i_lock, i_writers, i_uploaded, i_results,
           i_failures, it_pc, it_batch, it_count, it_attempt>>
nparams == <<n_variant, n_workers, n_total, n_batch, n_max_retries>>
nvars == <<nparams, n_queue, n_lock, n_deleted, n_succeeded, n_failures, n_main,
           nt_pc, nt_len, nt_count, nt_attempt, nt_tmp>>
dparams == <<d_variant, d_batch, d_max_retries>>
dvars == <<dparams, d_left, d_pc, d_attempt, d_ids>>
qvars == <<q_variant, q_left, q_pc, q_calls, q_failures>>
ekvars == <<ek_variant, ek_batch, ek_store, ek_pending, ek_index, ek_pc, ek_todo,
            ek_skipped, ek_failures>>
xvars == <<svars, pvars, kvars, rvars, ivars, nvars, dvars, qvars, ekvars>>
vars == <<tvars, wvars, cvars, uvars, xvars>>
notThrottle == <<wvars, cvars, uvars, xvars>>
notWalk == <<tvars, cvars, uvars, xvars>>
notClear == <<tvars, wvars, uvars, xvars>>
notUpload == <<tvars, wvars, cvars, xvars>>
notSync == <<tvars, wvars, cvars, uvars, pvars, kvars, rvars, ivars, nvars, dvars, qvars, ekvars>>
notPool == <<wvars, cvars, uvars, svars, kvars, rvars, ivars, nvars, dvars, qvars, ekvars>>
notChunk == <<tvars, wvars, cvars, uvars, svars, pvars, rvars, ivars, nvars, dvars, qvars, ekvars>>
notRetry == <<tvars, wvars, cvars, uvars, svars, pvars, kvars, ivars, nvars, dvars, qvars, ekvars>>
notIndex == <<tvars, wvars, cvars, uvars, svars, pvars, kvars, rvars, nvars, dvars, qvars, ekvars>>
notCount == <<tvars, wvars, cvars, uvars, svars, pvars, kvars, rvars, ivars, dvars, qvars, ekvars>>
notDrain == <<tvars, wvars, cvars, uvars, svars, pvars, kvars, rvars, ivars, nvars, qvars, ekvars>>
notCharge == <<tvars, wvars, cvars, uvars, svars, pvars, kvars, rvars, ivars, nvars, dvars, ekvars>>
notKey == <<tvars, wvars, cvars, uvars, svars, pvars, kvars, rvars, ivars, nvars, dvars, qvars>>

\* ------------------------------------------------------------------ bounds
Second == 2
MaxTime == 6
MaxCost == 2
MaxRuLimit == 3
MaxOversleep == 1
MaxClockSteps == 1
MaxClockBack == 3
MaxKey == 3
MaxBatch == 3
MaxMinimalBatch == 2
MaxRetries == 2
MaxBackoffBase == 1
MaxFailures == 3
MaxEmptyPages == 1
MaxEdges == 2
MaxVertices == 2
MaxClearBatch == 2
MaxClearFailures == 2
MaxCleared == 4
MaxPending == 2
MaxUploadBatch == 2
MaxUploadFailures == 1
MaxStoredEdges == 1
MaxSyncPages == 2
MaxSyncRequests == 2
MaxWorkers == 2
MaxPoolBatches == 2
MaxPoolTime == 3
MaxPoolFailures == 1
MaxIds == 5
MaxChunk == 3
MaxChunkFailures == 1
MaxBatchRetries == 3
MaxBatchLen == 2
MaxIndexKeys == 3
MaxIndexBatch == 2
MaxIndexFailures == 1
MaxCountIds == 3
MaxCountBatch == 2
MaxCountFailures == 1
MaxDrainEdges == 5
MaxDrainBatch == 3
MaxChargeRows == 3
MaxChargeFailures == 1
MaxKeyEdges == 2
MaxKeyBatch == 2
MaxKeyFailures == 1

\* ------------------------------------------------------------------ helpers
Min(a, b) == IF a <= b THEN a ELSE b
Max(a, b) == IF a >= b THEN a ELSE b

Range(s) == {s[i] : i \in 1..Len(s)}

RECURSIVE SumCosts(_)
SumCosts(s) == IF s = <<>> THEN 0 ELSE s[1][2] + SumCosts(Tail(s))

\* The entries of the charge history that lie in the second ending at time t.
RecentCharges(s, t) == SelectSeq(s, LAMBDA c : c[1] > t - Second)

\* ================================================================== RUThrottler
NoCall == [ru |-> 0, consumed |-> 0, elapsed |-> 0, calls |-> <<>>, requested |-> 0]

InitThrottle ==
    /\ now = 0
    /\ ru_limit \in MaxCost..MaxRuLimit
    /\ window_start = 0
    /\ ru_consumed = 0
    /\ charges = <<>>
    /\ slept = 0
    /\ total_ops = 0
    /\ t_calls = <<>>
    /\ t_last = NoCall
    /\ clock_steps = 0

IdleThrottle ==
    /\ now = 0
    /\ ru_limit = 0
    /\ window_start = 0
    /\ ru_consumed = 0
    /\ charges = <<>>
    /\ slept = 0
    /\ total_ops = 0
    /\ t_calls = <<>>
    /\ t_last = NoCall
    /\ clock_steps = 0

\* The test of throttle with ">" in place of ">=".
ThrottleBranchStrict(consumed, elapsed) ==
    IF elapsed < Second /\ consumed > ru_limit THEN "sleep"
    ELSE IF elapsed >= Second THEN "reset"
    ELSE "keep"

\* The branch throttle takes once the cost has been added.
ThrottleBranch(consumed, elapsed) ==
    IF elapsed < Second /\ consumed >= ru_limit THEN "sleep"
    ELSE IF elapsed >= Second THEN "reset"
    ELSE "keep"

\* throttle with the window reset before the sleep instead of after it.
ThrottleResetFirst(ru, over) ==
    LET consumed == ru_consumed + ru
        elapsed  == now - window_start
        branch   == ThrottleBranch(consumed, elapsed)
        wake     == IF branch = "sleep" THEN now + (Second - elapsed) + over ELSE now
    IN  /\ wake <= MaxTime
        /\ now' = wake
        /\ slept' = wake - now
        /\ window_start' = IF branch = "keep" THEN window_start ELSE now
        /\ ru_consumed' = IF branch = "keep" THEN consumed ELSE 0
        /\ charges' = RecentCharges(Append(charges, <<now, ru>>), wake)
        /\ total_ops' = total_ops + 1
        /\ t_calls' = IF branch = "keep" THEN Append(t_calls, ru) ELSE <<>>
        /\ t_last' = [ru |-> ru, consumed |-> consumed, elapsed |-> elapsed,
                      calls |-> Append(t_calls, ru),
                      requested |-> IF branch = "sleep" THEN Second - elapsed ELSE 0]
        /\ UNCHANGED <<ru_limit, clock_steps>>

\* RUThrottler.throttle(ru): the whole call, its sleep included.  time.sleep
\* returns after at least the requested time (over ticks more); the wall clock
\* may have been set back by then (back ticks), and "self.window_start =
\* time.time()" reads it afresh.
ThrottleAt(ru, over, back) ==
    LET consumed == ru_consumed + ru
        elapsed  == now - window_start
        branch   == ThrottleBranch(consumed, elapsed)
        sleep    == IF branch = "sleep" THEN (Second - elapsed) + over ELSE 0
        wake     == now + sleep - back
    IN  /\ back > 0 => (branch = "sleep" /\ clock_steps < MaxClockSteps)
        /\ wake >= 0
        /\ wake <= MaxTime
        /\ now' = wake
        /\ slept' = sleep
        /\ window_start' = IF branch = "keep" THEN window_start ELSE wake
        /\ ru_consumed' = IF branch = "keep" THEN consumed ELSE 0
        /\ charges' = RecentCharges(Append(charges, <<now, ru>>), wake)
        /\ total_ops' = total_ops + 1
        /\ t_calls' = IF branch = "keep" THEN Append(t_calls, ru) ELSE <<>>
        /\ t_last' = [ru |-> ru, consumed |-> consumed, elapsed |-> elapsed,
                      calls |-> Append(t_calls, ru),
                      requested |-> IF branch = "sleep" THEN Second - elapsed ELSE 0]
        /\ clock_steps' = clock_steps + (IF back > 0 THEN 1 ELSE 0)
        /\ UNCHANGED ru_limit

\* A call during which the clock is not touched.
Throttle(ru, over) == ThrottleAt(ru, over, 0)

ThrottleCall ==
    /\ \E ru \in 1..MaxCost, over \in 0..MaxOversleep : Throttle(ru, over)
    /\ UNCHANGED notThrottle

\* A call during whose sleep the clock is set back.
ThrottleCallClock ==
    /\ \E ru \in 1..MaxCost, over \in 0..MaxOversleep, back \in 1..MaxClockBack :
          ThrottleAt(ru, over, back)
    /\ UNCHANGED notThrottle

\* Time passes between two calls of the single caller.
Tick ==
    /\ now < MaxTime
    /\ now' = now + 1
    /\ charges' = RecentCharges(charges, now + 1)
    /\ UNCHANGED <<ru_limit, window_start, ru_consumed, slept, thist>>
    /\ UNCHANGED notThrottle

\* time.time() is the wall clock: the system may set it back between two calls.
ClockSetBack ==
    /\ clock_steps < MaxClockSteps
    /\ now > 0
    /\ clock_steps' = clock_steps + 1
    /\ now' = now - 1
    /\ UNCHANGED <<ru_limit, window_start, ru_consumed, charges, slept, total_ops,
                   t_calls, t_last>>
    /\ UNCHANGED notThrottle

NextThrottle == ThrottleCall \/ Tick \/ ClockSetBack

NextClock == ThrottleCall \/ ThrottleCallClock \/ Tick \/ ClockSetBack

\* ================================================================== pagination walks
Variants == {"keyset", "token", "token_v2", "token_edges", "offset"}

RECURSIVE SortedSeq(_)
SortedSeq(S) ==
    IF S = {} THEN <<>>
    ELSE LET m == CHOOSE x \in S : \A y \in S : x <= y
         IN  <<m>> \o SortedSeq(S \ {m})

RECURSIVE Pow2(_)
Pow2(n) == IF n = 0 THEN 1 ELSE 2 * Pow2(n - 1)

Take(s, n) == SubSeq(s, 1, Min(n, Len(s)))

\* The store's traversal order of the collection: fixed while nothing mutates it.
StoreSeq == SortedSeq(items)

\* The keyset query with P.gte in place of P.gt.
KeysetPageInclusive(last, n) ==
    Take(SortedSeq({k \in items : last = 0 \/ k >= last}), n)

\* g.V()[.has('graph_id', P.gt(last))].order().by('graph_id').limit(n)
KeysetPage(last, n) == Take(SortedSeq({k \in items : last = 0 \/ k > last}), n)

\* The range query with an inclusive upper end.
OffsetPageInclusive(off, n) ==
    SubSeq(StoreSeq, off + 1, Min(off + n + 1, Len(StoreSeq)))

\* g.V().range(off, off + n)
OffsetPage(off, n) == SubSeq(StoreSeq, off + 1, Min(off + n, Len(StoreSeq)))

\* A continuation token names the position the next page starts at.
TokenPos(c) == IF c = 0 THEN 0 ELSE c - 1
TokenPage(c, len) == SubSeq(StoreSeq, TokenPos(c) + 1, TokenPos(c) + len)
\* x-ms-continuation of that page: absent (0) on the last page only.
NextToken(c, len) ==
    IF TokenPos(c) + len < Len(StoreSeq) THEN TokenPos(c) + len + 1 ELSE 0
\* The page lengths the store may answer a token request with: up to pageSize
\* items, and possibly none while items remain.
PageLens(c, size) ==
    {len \in 0..Min(size, Len(StoreSeq) - TokenPos(c)) :
        len = 0 /\ TokenPos(c) < Len(StoreSeq) => empty_pages < MaxEmptyPages}

\* The signals an error of the store carries; "other" stands for every error that
\* is neither a rate-limit nor a timeout signal.
Signals == {"429", "GraphTimeoutException", "other"}

\* A classification that retries every error.
IsTransientAny(variant, signal) == variant \in Variants

\* The error signals each walk retries.
IsTransient(variant, signal) ==
    CASE variant = "keyset"   -> signal \in {"429", "GraphTimeoutException"}
      [] variant = "token_v2" -> signal \in {"429", "GraphTimeoutException"}
      [] variant = "token"    -> signal = "GraphTimeoutException"
      [] OTHER                -> FALSE

InitWalk ==
    /\ w_variant \in Variants
    /\ items \in SUBSET (1..MaxKey)
    /\ batch_size \in 1..MaxBatch
    /\ minimal_batch \in 1..MaxMinimalBatch
    /\ max_retries \in 1..MaxRetries
    /\ backoff_base \in 1..MaxBackoffBase
    /\ current_batch = batch_size
    /\ attempt = 0
    /\ last_graph_id = 0
    /\ continuation = 0
    /\ offset = 0
    /\ inserted = {}
    /\ w_pc = "fetch"
    /\ pages = <<>>
    /\ requested = <<>>
    /\ delays = <<>>
    /\ page_attempts = 0
    /\ w_failures = 0
    /\ w_signal = "none"
    /\ empty_pages = 0
    /\ w_end = "none"

IdleWalk ==
    /\ w_variant = "none"
    /\ items = {}
    /\ batch_size = 0
    /\ minimal_batch = 0
    /\ max_retries = 0
    /\ backoff_base = 0
    /\ current_batch = 0
    /\ attempt = 0
    /\ last_graph_id = 0
    /\ continuation = 0
    /\ offset = 0
    /\ inserted = {}
    /\ w_pc = "off"
    /\ pages = <<>>
    /\ requested = <<>>
    /\ delays = <<>>
    /\ page_attempts = 0
    /\ w_failures = 0
    /\ w_signal = "none"
    /\ empty_pages = 0
    /\ w_end = "none"

\* A page was fetched: the retry state of the request is dropped.
Fetched(cursor) ==
    /\ requested' = Append(requested, cursor)
    /\ attempt' = 0
    /\ delays' = <<>>
    /\ page_attempts' = 0
    /\ UNCHANGED <<w_failures, w_signal>>

\* A failed request that was sent for the position after the cursor.
FailedPastCursor(cursor) ==
    /\ w_failures < MaxFailures
    /\ requested' = Append(requested, cursor + 1)
    /\ page_attempts' = page_attempts + 1
    /\ w_failures' = w_failures + 1

\* A request failed.
Failed(cursor) ==
    /\ w_failures < MaxFailures
    /\ requested' = Append(requested, cursor)
    /\ page_attempts' = page_attempts + 1
    /\ w_failures' = w_failures + 1

Consume(page) ==
    /\ inserted' = inserted \cup Range(page)
    /\ pages' = pages \o page

EndWalk(pc, end) ==
    /\ w_pc' = pc
    /\ w_end' = end

\* ---- load_existing_vertices_by_keyset
KeysetFetchOk ==
    /\ w_pc = "fetch"
    /\ w_variant = "keyset"
    /\ LET ids == KeysetPage(last_graph_id, batch_size)
       IN  /\ Fetched(last_graph_id)
           /\ IF ids = <<>>
              THEN /\ EndWalk("returned", "last_page")
                   /\ UNCHANGED <<inserted, pages, last_graph_id>>
              ELSE /\ Consume(ids)
                   /\ last_graph_id' = ids[Len(ids)]
                   /\ UNCHANGED <<w_pc, w_end>>
    /\ UNCHANGED <<wparams, current_batch, continuation, offset, empty_pages>>
    /\ UNCHANGED notWalk

\* The retry loop "for attempt in range(max_retries)" with its else branch.
RetryLoopFail(cursor, signal) ==
    /\ Failed(cursor)
    /\ w_signal' = signal
    /\ IF IsTransient(w_variant, signal)
       THEN /\ delays' = Append(delays, backoff_base * Pow2(attempt))
            /\ attempt' = attempt + 1
            /\ IF attempt + 1 >= max_retries
               THEN EndWalk("returned", "aborted")
               ELSE UNCHANGED <<w_pc, w_end>>
       ELSE /\ EndWalk("raised", "raised")
            /\ UNCHANGED <<delays, attempt>>

KeysetFetchFail ==
    /\ w_pc = "fetch"
    /\ w_variant = "keyset"
    /\ \E signal \in Signals : RetryLoopFail(last_graph_id, signal)
    /\ UNCHANGED <<wparams, current_batch, last_graph_id, continuation, offset,
                   inserted, pages, empty_pages>>
    /\ UNCHANGED notWalk

\* ---- load_existing_continuation.load_existing_vertices
\* What both token walks of vertices do with a fetched page.
TokenConsume(len) ==
    LET verts == TokenPage(continuation, len)
        token == NextToken(continuation, len)
    IN  /\ Fetched(continuation)
        /\ empty_pages' = IF len = 0 /\ token # 0 THEN empty_pages + 1 ELSE empty_pages
        /\ IF verts = <<>>
           THEN /\ EndWalk("returned", IF token = 0 THEN "last_page" ELSE "early")
                /\ UNCHANGED <<inserted, pages, continuation>>
           ELSE /\ Consume(verts)
                /\ continuation' = token
                /\ IF token = 0
                   THEN EndWalk("returned", "last_page")
                   ELSE UNCHANGED <<w_pc, w_end>>

TokenFetchOk ==
    /\ w_pc = "fetch"
    /\ w_variant = "token"
    /\ \E len \in PageLens(continuation, current_batch) : TokenConsume(len)
    /\ UNCHANGED <<wparams, current_batch, last_graph_id, offset>>
    /\ UNCHANGED notWalk

HardMinimalBatch == 2

TokenFetchFail ==
    /\ w_pc = "fetch"
    /\ w_variant = "token"
    /\ \E signal \in Signals :
          /\ RetryLoopFail(continuation, signal)
          /\ current_batch' = IF IsTransient(w_variant, signal)
                              THEN Max(HardMinimalBatch, current_batch \div 2)
                              ELSE current_batch
    /\ UNCHANGED <<wparams, last_graph_id, continuation, offset, inserted, pages,
                   empty_pages>>
    /\ UNCHANGED notWalk

\* ---- load_existing_vertices_v2.load_existing_vertices
TokenV2FetchOk ==
    /\ w_pc = "fetch"
    /\ w_variant = "token_v2"
    /\ \E len \in PageLens(continuation, current_batch) : TokenConsume(len)
    /\ UNCHANGED <<wparams, current_batch, last_graph_id, offset>>
    /\ UNCHANGED notWalk

\* The except branch of the inner "while True" of v2.
ShrinkLoopFail(signal) ==
    /\ Failed(continuation)
    /\ w_signal' = signal
    /\ IF IsTransient(w_variant, signal)
       THEN IF attempt + 1 >= max_retries
            THEN IF current_batch <= minimal_batch
                 THEN /\ EndWalk("returned", "aborted")
                      /\ attempt' = attempt + 1
                      /\ UNCHANGED <<current_batch, delays>>
                 ELSE /\ current_batch' = Max(minimal_batch, current_batch \div 2)
                      /\ attempt' = 0
                      /\ delays' = Append(delays, backoff_base)
                      /\ UNCHANGED <<w_pc, w_end>>
            ELSE /\ attempt' = attempt + 1
                 /\ delays' = Append(delays, backoff_base * Pow2(attempt))
                 /\ UNCHANGED <<current_batch, w_pc, w_end>>
       ELSE /\ EndWalk("raised", "raised")
            /\ UNCHANGED <<current_batch, attempt, delays>>

TokenV2FetchFail ==
    /\ w_pc = "fetch"
    /\ w_variant = "token_v2"
    /\ \E signal \in Signals : ShrinkLoopFail(signal)
    /\ UNCHANGED <<wparams, last_graph_id, continuation, offset, inserted, pages,
                   empty_pages>>
    /\ UNCHANGED notWalk

\* ---- load_existing_continuation.load_existing_edges
EdgesFetchOk ==
    /\ w_pc = "fetch"
    /\ w_variant = "token_edges"
    /\ \E len \in PageLens(continuation, batch_size) :
          LET edges == TokenPage(continuation, len)
              token == NextToken(continuation, len)
          IN  /\ Fetched(continuation)
              /\ empty_pages' = IF len = 0 /\ token # 0
                                THEN empty_pages + 1 ELSE empty_pages
              /\ Consume(edges)
              /\ continuation' = token
              /\ IF token = 0
                 THEN EndWalk("returned", "last_page")
                 ELSE UNCHANGED <<w_pc, w_end>>
    /\ UNCHANGED <<wparams, current_batch, last_graph_id, offset>>
    /\ UNCHANGED notWalk

\* No try block: every error leaves the function.
EdgesFetchFail ==
    /\ w_pc = "fetch"
    /\ w_variant = "token_edges"
    /\ Failed(continuation)
    /\ \E signal \in Signals : w_signal' = signal
    /\ EndWalk("raised", "raised")
    /\ UNCHANGED <<wparams, current_batch, attempt, last_graph_id, continuation,
                   offset, inserted, pages, delays, empty_pages>>
    /\ UNCHANGED notWalk

\* ---- load_existing_graph (offset ranges)
OffsetFetchOk ==
    /\ w_pc = "fetch"
    /\ w_variant = "offset"
    /\ LET vertex_ids == OffsetPage(offset, batch_size)
       IN  /\ Fetched(offset)
           /\ IF vertex_ids = <<>>
              THEN /\ EndWalk("returned", "last_page")
                   /\ UNCHANGED <<inserted, pages, offset>>
              ELSE /\ Consume(vertex_ids)
                   /\ offset' = offset + batch_size
                   /\ UNCHANGED <<w_pc, w_end>>
    /\ UNCHANGED <<wparams, current_batch, last_graph_id, continuation, empty_pages>>
    /\ UNCHANGED notWalk

\* "except Exception": the error is logged and the loop is left.
OffsetFetchFail ==
    /\ w_pc = "fetch"
    /\ w_variant = "offset"
    /\ Failed(offset)
    /\ \E signal \in Signals : w_signal' = signal
    /\ EndWalk("returned", "aborted")
    /\ UNCHANGED <<wparams, current_batch, attempt, last_graph_id, continuation,
                   offset, inserted, pages, delays, empty_pages>>
    /\ UNCHANGED notWalk

NextWalk ==
    \/ KeysetFetchOk
    \/ KeysetFetchFail
    \/ TokenFetchOk
    \/ TokenFetchFail
    \/ TokenV2FetchOk
    \/ TokenV2FetchFail
    \/ EdgesFetchOk
    \/ EdgesFetchFail
    \/ OffsetFetchOk
    \/ OffsetFetchFail

\* ================================================================== full clear
Phases == {"edges", "vertices"}

InitClear ==
    /\ c_variant \in {"v5", "v4", "v2", "g3"}
    /\ c_batch \in 1..MaxClearBatch
    /\ c_max_retries \in 1..MaxRetries
    /\ left \in [Phases -> 0..MaxEdges]
    /\ left["vertices"] <= MaxVertices
    /\ c_phase = "edges"
    /\ c_pc = "fetch"
    /\ c_attempt = 0
    /\ c_ids = 0
    /\ deleted = [p \in Phases |-> 0]
    /\ dropped = [p \in Phases |-> 0]
    /\ c_failures = 0
    /\ abandoned = 0
    /\ edge_walk_exhausted = FALSE
    /\ vertex_drop_sent = FALSE
    /\ present = left
    /\ c_flying = 0

IdleClear ==
    /\ c_variant = "none"
    /\ c_batch = 0
    /\ c_max_retries = 0
    /\ left = [p \in Phases |-> 0]
    /\ c_phase = "edges"
    /\ c_pc = "off"
    /\ c_attempt = 0
    /\ c_ids = 0
    /\ deleted = [p \in Phases |-> 0]
    /\ dropped = [p \in Phases |-> 0]
    /\ c_failures = 0
    /\ abandoned = 0
    /\ edge_walk_exhausted = FALSE
    /\ vertex_drop_sent = FALSE
    /\ present = [p \in Phases |-> 0]
    /\ c_flying = 0

\* The delete-all function of the phase returns: delete_all_vertices_in_batches
\* goes on with its own loop after the edges, and returns after the vertices.
EndPhase ==
    /\ c_attempt' = 0
    /\ IF c_phase = "edges"
       THEN /\ c_phase' = "vertices"
            /\ c_pc' = "fetch"
       ELSE /\ c_pc' = "done"
            /\ UNCHANGED c_phase

\* g.E().limit(n).id() / g.V().limit(n).id()
LimitPage(phase, n) == Min(n, left[phase])

ClearFailed ==
    /\ c_failures < MaxClearFailures
    /\ c_failures' = c_failures + 1

ClearTransient(signal) == signal \in {"429", "GraphTimeoutException"}

\* ---- delete_v5: fetch a page of ids with retry
V5FetchOk ==
    /\ c_variant = "v5"
    /\ c_pc = "fetch"
    /\ c_ids' = LimitPage(c_phase, c_batch)
    /\ IF LimitPage(c_phase, c_batch) = 0
       THEN /\ EndPhase
            /\ edge_walk_exhausted' = (edge_walk_exhausted \/ c_phase = "edges")
       ELSE /\ c_pc' = "drop"
            /\ c_attempt' = 0
            /\ UNCHANGED <<c_phase, edge_walk_exhausted>>
    /\ UNCHANGED <<cparams, present, c_flying, left, deleted, dropped, c_failures, abandoned,
                   vertex_drop_sent>>
    /\ UNCHANGED notClear

V5FetchFail ==
    /\ c_variant = "v5"
    /\ c_pc = "fetch"
    /\ ClearFailed
    /\ \E signal \in Signals :
          IF ClearTransient(signal)
          THEN IF c_attempt + 1 >= c_max_retries
               THEN EndPhase
               ELSE /\ c_attempt' = c_attempt + 1
                    /\ UNCHANGED <<c_phase, c_pc>>
          ELSE /\ c_pc' = "raised"
               /\ UNCHANGED <<c_phase, c_attempt>>
    /\ UNCHANGED <<cparams, present, c_flying, left, c_ids, deleted, dropped, abandoned,
                   edge_walk_exhausted, vertex_drop_sent>>
    /\ UNCHANGED notClear

\* The statements after the drop loop of delete_v5: they run when the loop ended
\* by break and when it ran out of attempts alike.
V5AfterDropLoop ==
    /\ deleted' = [deleted EXCEPT ![c_phase] = @ + c_ids]
    /\ c_pc' = "fetch"
    /\ c_attempt' = 0

\* ---- delete_v5: drop the fetched ids with retry
V5DropOk ==
    /\ c_variant = "v5"
    /\ c_pc = "drop"
    /\ left' = [left EXCEPT ![c_phase] = @ - c_ids]
    /\ dropped' = [dropped EXCEPT ![c_phase] = @ + c_ids]
    /\ vertex_drop_sent' = (vertex_drop_sent \/ c_phase = "vertices")
    /\ V5AfterDropLoop
    /\ UNCHANGED <<cparams, present, c_flying, c_phase, c_ids, c_failures, abandoned, edge_walk_exhausted>>
    /\ UNCHANGED notClear

V5DropFail ==
    /\ c_variant = "v5"
    /\ c_pc = "drop"
    /\ ClearFailed
    /\ vertex_drop_sent' = (vertex_drop_sent \/ c_phase = "vertices")
    /\ \E signal \in Signals :
          IF ClearTransient(signal)
          THEN IF c_attempt + 1 >= c_max_retries
               THEN /\ V5AfterDropLoop
                    /\ abandoned' = abandoned + 1
               ELSE /\ c_attempt' = c_attempt + 1
                    /\ UNCHANGED <<c_pc, deleted, abandoned>>
          ELSE /\ c_pc' = "raised"
               /\ UNCHANGED <<c_attempt, deleted, abandoned>>
    /\ UNCHANGED <<cparams, present, c_flying, left, c_phase, c_ids, dropped, edge_walk_exhausted>>
    /\ UNCHANGED notClear

\* ---- delete_v4: g.E().limit(n).as('e').sideEffect(drop()).select('e').id()
V4DropOk ==
    /\ c_variant = "v4"
    /\ c_pc = "fetch"
    /\ LET n == LimitPage(c_phase, c_batch)
       IN  /\ c_ids' = n
           /\ left' = [left EXCEPT ![c_phase] = @ - n]
           /\ dropped' = [dropped EXCEPT ![c_phase] = @ + n]
           /\ vertex_drop_sent' = (vertex_drop_sent \/ c_phase = "vertices")
           /\ IF n = 0
              THEN /\ EndPhase
                   /\ edge_walk_exhausted' = (edge_walk_exhausted \/ c_phase = "edges")
                   /\ UNCHANGED deleted
              ELSE /\ deleted' = [deleted EXCEPT ![c_phase] = @ + n]
                   /\ UNCHANGED <<c_phase, c_pc, c_attempt, edge_walk_exhausted>>
    /\ UNCHANGED <<cparams, present, c_flying, c_failures, abandoned>>
    /\ UNCHANGED notClear

\* "except GremlinServerError": printed, and the loop is left.
V4DropFail ==
    /\ c_variant = "v4"
    /\ c_pc = "fetch"
    /\ ClearFailed
    /\ vertex_drop_sent' = (vertex_drop_sent \/ c_phase = "vertices")
    /\ EndPhase
    /\ UNCHANGED <<cparams, present, c_flying, left, c_ids, deleted, dropped, abandoned,
                   edge_walk_exhausted>>
    /\ UNCHANGED notClear

\* ---- delete_v2: fetch a page of ids, then submit their drop script
\* "rs = client.submit(f"g.E().limit({batch_size}).id()") ... edge_ids =
\* rs.all().result()": the ids still in the store, those of a drop script that
\* has not been executed yet included. On an empty page every script submitted
\* has been executed.
D2FetchOk ==
    /\ c_variant = "v2"
    /\ c_pc = "fetch"
    /\ c_ids' = LimitPage(c_phase, c_batch)
    /\ IF LimitPage(c_phase, c_batch) = 0
       THEN /\ EndPhase
            /\ edge_walk_exhausted' = (edge_walk_exhausted \/ c_phase = "edges")
            /\ c_flying' = 0
       ELSE /\ c_pc' = "drop"
            /\ UNCHANGED <<c_phase, c_attempt, edge_walk_exhausted, c_flying>>
    /\ UNCHANGED <<cparams, present, left, deleted, dropped, c_failures,
                   abandoned, vertex_drop_sent>>
    /\ UNCHANGED notClear

\* The fetch is not in a try block: its error leaves the function.
D2FetchFail ==
    /\ c_variant = "v2"
    /\ c_pc = "fetch"
    /\ ClearFailed
    /\ c_pc' = "raised"
    /\ UNCHANGED <<cparams, present, c_flying, left, c_phase, c_attempt, c_ids, deleted,
                   dropped, abandoned, edge_walk_exhausted, vertex_drop_sent>>
    /\ UNCHANGED notClear

\* "rs2 = client.submit(drop_script) ... deleted += len(edge_ids)": the result of
\* the drop is never read, so the function counts the ids and fetches again
\* whether the store has executed the script or not.
D2DropSubmit ==
    /\ c_variant = "v2"
    /\ c_pc = "drop"
    /\ deleted[c_phase] + c_ids <= MaxCleared
    /\ deleted' = [deleted EXCEPT ![c_phase] = @ + c_ids]
    /\ c_flying' = c_ids
    /\ vertex_drop_sent' = (vertex_drop_sent \/ c_phase = "vertices")
    /\ c_pc' = "fetch"
    /\ UNCHANGED <<cparams, present, left, c_phase, c_attempt, c_ids, dropped,
                   c_failures, abandoned, edge_walk_exhausted>>
    /\ UNCHANGED notClear

\* The store executes the drop script that was submitted: it drops those of its
\* ids that are still there (an earlier script may have named the same ids).
D2DropExecuted ==
    /\ c_variant = "v2"
    /\ c_flying > 0
    /\ left' = [left EXCEPT ![c_phase] = @ - Min(c_flying, @)]
    /\ dropped' = [dropped EXCEPT ![c_phase] = @ + Min(c_flying, left[c_phase])]
    /\ c_flying' = 0
    /\ UNCHANGED <<cparams, present, c_phase, c_pc, c_attempt, c_ids, deleted,
                   c_failures, abandoned, edge_walk_exhausted, vertex_drop_sent>>
    /\ UNCHANGED notClear

\* The store rejects the drop script; nobody reads the error.
D2DropRejected ==
    /\ c_variant = "v2"
    /\ c_flying > 0
    /\ ClearFailed
    /\ c_flying' = 0
    /\ UNCHANGED <<cparams, present, left, c_phase, c_pc, c_attempt, c_ids, deleted,
                   dropped, abandoned, edge_walk_exhausted, vertex_drop_sent>>
    /\ UNCHANGED notClear

\* ---- gremlin_v3.delete_all_edges_batched / delete_all_vertices_batched
\* "g.E().limit({batch_size}).drop()" drops what there is, nothing on an empty
\* store, and raises nothing; "total_deleted += batch_size"; the loop goes on.
G3DropOk ==
    /\ c_variant = "g3"
    /\ c_pc = "fetch"
    /\ deleted[c_phase] + c_batch <= MaxCleared
    /\ LET n == LimitPage(c_phase, c_batch)
       IN  /\ c_ids' = n
           /\ left' = [left EXCEPT ![c_phase] = @ - n]
           /\ dropped' = [dropped EXCEPT ![c_phase] = @ + n]
    /\ deleted' = [deleted EXCEPT ![c_phase] = @ + c_batch]
    /\ vertex_drop_sent' = (vertex_drop_sent \/ c_phase = "vertices")
    /\ UNCHANGED <<cparams, present, c_flying, c_phase, c_pc, c_attempt, c_failures,
                   abandoned, edge_walk_exhausted>>
    /\ UNCHANGED notClear

\* "except Exception": both branches break, and the function returns.
G3DropFail ==
    /\ c_variant = "g3"
    /\ c_pc = "fetch"
    /\ ClearFailed
    /\ vertex_drop_sent' = (vertex_drop_sent \/ c_phase = "vertices")
    /\ EndPhase
    /\ UNCHANGED <<cparams, present, c_flying, left, c_ids, deleted, dropped, abandoned,
                   edge_walk_exhausted>>
    /\ UNCHANGED notClear

NextClear ==
    \/ V5FetchOk
    \/ V5FetchFail
    \/ V5DropOk
    \/ V5DropFail
    \/ V4DropOk
    \/ V4DropFail
    \/ D2FetchOk
    \/ D2FetchFail
    \/ D2DropSubmit
    \/ D2DropExecuted
    \/ D2DropRejected
    \/ G3DropOk
    \/ G3DropFail

\* ================================================================== incremental sync
VertexIds == {"a", "b"}
Edges == {[out |-> "a", label |-> "k", in |-> "b"],
          [out |-> "b", label |-> "k", in |-> "a"]}

SeqsUpTo(S, n) == UNION {[1..k -> S] : k \in 0..n}

\* f"{out}-{label}->{in}": the edge key of gremlin_v1, loader and uploader.
DashEdgeKey(e) == e.out \o "-" \o e.label \o "->" \o e.in
\* f"{out}_{label}_{in}": the edge key of upload_v2, parallel_upload_1 and the
\* continuation loader.
UnderscoreEdgeKey(e) == e.out \o "_" \o e.label \o "_" \o e.in

\* The loader composing its key in the other format of the repository.
LoadedEdgeKeyOtherFormat(e) == UnderscoreEdgeKey(e)

\* The key load_existing_graph (gremlin_v1) gives an edge of the store.
LoadedEdgeKey(e) == DashEdgeKey(e)

\* The key the uploader of the variant gives a pending edge.
UploadEdgeKey(variant, e) ==
    IF variant = "g1" THEN DashEdgeKey(e) ELSE UnderscoreEdgeKey(e)

\* The key of a work item of the phase: str(row["ID"]) / v['id'] for a vertex.
Key(phase, x) == IF phase = "vertices" THEN x ELSE UploadEdgeKey(u_variant, x)

NoIndex(phase) == {}

Index(phase) ==
    IF phase = "vertices" THEN inserted_vertex_ids ELSE inserted_edge_keys

Pending(phase) == IF phase = "vertices" THEN pending_v ELSE pending_e

Drop(s, n) == SubSeq(s, Min(n, Len(s)) + 1, Len(s))

\* batch[:count]: the items of the batch that are marked as inserted.
Marked(batch, count) == Take(batch, count)

InitUpload ==
    /\ u_variant \in {"v2", "p1", "g1"}
    /\ pending_v \in SeqsUpTo(VertexIds, MaxPending)
    /\ pending_e \in SeqsUpTo(Edges, MaxPending)
    \* gremlin_v1 sends one row per request and has no retry; upload_v2 has no retry
    /\ u_batch \in IF u_variant = "g1" THEN {1} ELSE 1..MaxUploadBatch
    /\ u_max_retries \in IF u_variant = "p1" THEN 1..MaxRetries ELSE {0}
    /\ store_v \in SUBSET VertexIds
    /\ store_e \in SUBSET Edges
    /\ Cardinality(store_e) <= MaxStoredEdges
    \* the index handed to the first run was loaded from the store
    /\ inserted_vertex_ids = store_v
    /\ inserted_edge_keys = {UploadEdgeKey(u_variant, e) : e \in store_e}
    /\ run = 1
    /\ u_phase = "vertices"
    /\ u_pc = "start"
    /\ to_insert = <<>>
    /\ u_attempt = 0
    /\ u_failures = 0
    /\ last_outcome = "none"
    /\ requests = [r \in 1..2 |-> 0]
    /\ known = {}
    /\ uploads = <<>>

IdleUpload ==
    /\ u_variant = "none"
    /\ pending_v = <<>>
    /\ pending_e = <<>>
    /\ u_batch = 0
    /\ u_max_retries = 0
    /\ store_v = {}
    /\ store_e = {}
    /\ inserted_vertex_ids = {}
    /\ inserted_edge_keys = {}
    /\ run = 1
    /\ u_phase = "vertices"
    /\ u_pc = "off"
    /\ to_insert = <<>>
    /\ u_attempt = 0
    /\ u_failures = 0
    /\ last_outcome = "none"
    /\ requests = [r \in 1..2 |-> 0]
    /\ known = {}
    /\ uploads = <<>>

\* An index that keeps the keys of the last batch only.
IndexReplace(keys) ==
    IF u_phase = "vertices"
    THEN /\ inserted_vertex_ids' = keys
         /\ UNCHANGED inserted_edge_keys
    ELSE /\ inserted_edge_keys' = keys
         /\ UNCHANGED inserted_vertex_ids

\* inserted_vertex_ids.add / inserted_edge_keys.add for the keys of a batch.
IndexAdd(keys) ==
    IF u_phase = "vertices"
    THEN /\ inserted_vertex_ids' = inserted_vertex_ids \cup keys
         /\ UNCHANGED inserted_edge_keys
    ELSE /\ inserted_edge_keys' = inserted_edge_keys \cup keys
         /\ UNCHANGED inserted_vertex_ids

StoreAdd(entities) ==
    IF u_phase = "vertices"
    THEN /\ store_v' = store_v \cup entities
         /\ UNCHANGED store_e
    ELSE /\ store_e' = store_e \cup entities
         /\ UNCHANGED store_v

\* One more request; in the vertex phase it carries an addV statement for every
\* vertex of the batch.
Requested ==
    /\ requests' = [requests EXCEPT ![run] = @ + 1]
    /\ uploads' = IF u_phase = "vertices"
                  THEN uploads \o Take(to_insert, u_batch)
                  ELSE uploads
    /\ UNCHANGED known

UploadFailed ==
    /\ u_failures < MaxUploadFailures
    /\ u_failures' = u_failures + 1

\* ---- the start of a phase
\* upload_v2 / parallel_upload_1: "to_insert = [v for v in vertices if v['id'] not
\* in inserted_vertex_ids]", on the index the caller hands in.
FilterPending ==
    /\ u_pc = "start"
    /\ u_variant \in {"v2", "p1"}
    /\ to_insert' = SelectSeq(Pending(u_phase), LAMBDA x : Key(u_phase, x) \notin Index(u_phase))
    /\ u_pc' = "upload"
    /\ u_attempt' = 0
    /\ last_outcome' = "none"
    /\ IF u_phase = "vertices"
       THEN known' = inserted_vertex_ids /\ uploads' = <<>>
       ELSE UNCHANGED <<known, uploads>>
    /\ UNCHANGED <<uparams, store_v, store_e, inserted_vertex_ids, inserted_edge_keys,
                   run, u_phase, u_failures, requests>>
    /\ UNCHANGED notUpload

\* gremlin_v1.run_graph_upload: load_existing_graph rebuilds both sets from the
\* store, then upload_vertices iterates the rows of df_vertices.
LoadExistingGraph ==
    /\ u_pc = "start"
    /\ u_variant = "g1"
    /\ u_phase = "vertices"
    /\ inserted_vertex_ids' = store_v
    /\ inserted_edge_keys' = {LoadedEdgeKey(e) : e \in store_e}
    /\ to_insert' = pending_v
    /\ u_pc' = "upload"
    /\ last_outcome' = "none"
    /\ known' = store_v
    /\ uploads' = <<>>
    /\ UNCHANGED <<uparams, store_v, store_e, run, u_phase, u_attempt, u_failures,
                   requests>>
    /\ UNCHANGED notUpload

\* gremlin_v1.upload_edges iterates the rows of df_edges.
StartEdgeRows ==
    /\ u_pc = "start"
    /\ u_variant = "g1"
    /\ u_phase = "edges"
    /\ to_insert' = pending_e
    /\ u_pc' = "upload"
    /\ last_outcome' = "none"
    /\ UNCHANGED <<uparams, store_v, store_e, inserted_vertex_ids, inserted_edge_keys,
                   run, u_phase, u_attempt, u_failures, requests, known, uploads>>
    /\ UNCHANGED notUpload

\* The loop of the phase is over: edges follow vertices, the second run follows
\* the first.
EndUploadPhase ==
    /\ u_pc = "upload"
    /\ to_insert = <<>>
    /\ last_outcome' = "none"
    /\ IF u_phase = "vertices"
       THEN /\ u_phase' = "edges"
            /\ u_pc' = "start"
            /\ UNCHANGED run
       ELSE IF run = 1
            THEN /\ run' = 2
                 /\ u_phase' = "vertices"
                 /\ u_pc' = "start"
            ELSE /\ u_pc' = "done"
                 /\ UNCHANGED <<run, u_phase>>
    /\ UNCHANGED <<uparams, store_v, store_e, inserted_vertex_ids, inserted_edge_keys,
                   to_insert, u_attempt, u_failures, requests, known, uploads>>
    /\ UNCHANGED notUpload

\* ---- upload_v2.upload_vertices_in_batches / upload_edges_in_batches
V2UploadOk ==
    /\ u_pc = "upload"
    /\ u_variant = "v2"
    /\ to_insert # <<>>
    /\ LET batch == Take(to_insert, u_batch)
       IN  /\ StoreAdd(Range(batch))
           /\ IndexAdd({Key(u_phase, x) : x \in Range(batch)})
    /\ to_insert' = Drop(to_insert, u_batch)
    /\ Requested
    /\ last_outcome' = "ok"
    /\ UNCHANGED <<uparams, run, u_phase, u_pc, u_attempt, u_failures>>
    /\ UNCHANGED notUpload

\* The request fails at the store. "rs = client.submit(gremlin)" is followed by no
\* "rs.all().result()": the store's error stays in the result set, nothing is
\* raised, and the loop body goes on to "inserted_vertex_ids.add(v['id'])" for
\* every item of the batch.
V2UploadUnread ==
    /\ u_pc = "upload"
    /\ u_variant = "v2"
    /\ to_insert # <<>>
    /\ UploadFailed
    /\ Requested
    /\ \E signal \in Signals :
          last_outcome' = IF signal = "other" THEN "fatal" ELSE "transient"
    /\ IndexAdd({Key(u_phase, x) : x \in Range(Take(to_insert, u_batch))})
    /\ to_insert' = Drop(to_insert, u_batch)
    /\ UNCHANGED <<uparams, store_v, store_e, run, u_phase, u_pc, u_attempt>>
    /\ UNCHANGED notUpload

\* No try block: an error raised by client.submit itself leaves the function.
V2UploadFail ==
    /\ u_pc = "upload"
    /\ u_variant = "v2"
    /\ to_insert # <<>>
    /\ UploadFailed
    /\ Requested
    /\ \E signal \in Signals :
          last_outcome' = IF signal = "other" THEN "fatal" ELSE "transient"
    /\ u_pc' = "raised"
    /\ UNCHANGED <<uparams, store_v, store_e, inserted_vertex_ids, inserted_edge_keys,
                   run, u_phase, to_insert, u_attempt>>
    /\ UNCHANGED notUpload

\* ---- parallel_upload_1._upload_batch
\* The "with lock" block that ends _upload_batch, with the count the retry loop
\* left.
P1AfterRetryLoop(batch, count) ==
    /\ IndexAdd({Key(u_phase, x) : x \in Range(Marked(batch, count))})
    /\ to_insert' = Drop(to_insert, u_batch)
    /\ u_attempt' = 0

P1Transient(signal) == signal \in {"429", "TooManyRequests", "GraphTimeoutException"}

P1UploadOk ==
    /\ u_pc = "upload"
    /\ u_variant = "p1"
    /\ to_insert # <<>>
    /\ LET batch == Take(to_insert, u_batch)
       IN  /\ StoreAdd(Range(batch))
           /\ P1AfterRetryLoop(batch, Len(batch))
    /\ Requested
    /\ last_outcome' = "ok"
    /\ UNCHANGED <<uparams, run, u_phase, u_pc, u_failures>>
    /\ UNCHANGED notUpload

P1UploadFail ==
    /\ u_pc = "upload"
    /\ u_variant = "p1"
    /\ to_insert # <<>>
    /\ UploadFailed
    /\ Requested
    /\ \E signal \in Signals \cup {"TooManyRequests"} :
          IF P1Transient(signal)
          THEN /\ last_outcome' = "transient"
               /\ IF u_attempt + 1 >= u_max_retries
                  THEN P1AfterRetryLoop(Take(to_insert, u_batch), 0)
                  ELSE /\ u_attempt' = u_attempt + 1
                       /\ UNCHANGED <<inserted_vertex_ids, inserted_edge_keys, to_insert>>
          ELSE /\ last_outcome' = "fatal"
               /\ P1AfterRetryLoop(Take(to_insert, u_batch), 0)
    /\ UNCHANGED <<uparams, store_v, store_e, run, u_phase, u_pc>>
    /\ UNCHANGED notUpload

\* ---- gremlin_v1.upload_vertices / upload_edges: one row, one request
\* "if vertex_id in inserted_vertex_ids: continue"
G1Skip ==
    /\ u_pc = "upload"
    /\ u_variant = "g1"
    /\ to_insert # <<>>
    /\ Key(u_phase, Head(to_insert)) \in Index(u_phase)
    /\ to_insert' = Tail(to_insert)
    /\ last_outcome' = "none"
    /\ UNCHANGED <<uparams, store_v, store_e, inserted_vertex_ids, inserted_edge_keys,
                   run, u_phase, u_pc, u_attempt, u_failures, requests, known, uploads>>
    /\ UNCHANGED notUpload

G1UploadOk ==
    /\ u_pc = "upload"
    /\ u_variant = "g1"
    /\ to_insert # <<>>
    /\ Key(u_phase, Head(to_insert)) \notin Index(u_phase)
    /\ StoreAdd({Head(to_insert)})
    /\ IndexAdd({Key(u_phase, Head(to_insert))})
    /\ to_insert' = Tail(to_insert)
    /\ Requested
    /\ last_outcome' = "ok"
    /\ UNCHANGED <<uparams, run, u_phase, u_pc, u_attempt, u_failures>>
    /\ UNCHANGED notUpload

\* "except GremlinServerError": logged, the loop goes on with the next row.
G1UploadFail ==
    /\ u_pc = "upload"
    /\ u_variant = "g1"
    /\ to_insert # <<>>
    /\ Key(u_phase, Head(to_insert)) \notin Index(u_phase)
    /\ UploadFailed
    /\ Requested
    /\ \E signal \in Signals :
          last_outcome' = IF signal = "other" THEN "fatal" ELSE "transient"
    /\ to_insert' = Tail(to_insert)
    /\ UNCHANGED <<uparams, store_v, store_e, inserted_vertex_ids, inserted_edge_keys,
                   run, u_phase, u_pc, u_attempt>>
    /\ UNCHANGED notUpload

NextUpload ==
    \/ FilterPending
    \/ LoadExistingGraph
    \/ StartEdgeRows
    \/ EndUploadPhase
    \/ V2UploadOk
    \/ V2UploadUnread
    \/ V2UploadFail
    \/ P1UploadOk
    \/ P1UploadFail
    \/ G1Skip
    \/ G1UploadOk
    \/ G1UploadFail

\* ================================================================== sync phases
\* gremlin_v1.run_graph_upload: load_existing_graph (vertices, then edges),
\* upload_vertices, upload_edges.  upload_v1.run_graph_upload_checked:
\* upload_vertices_in_batches, upload_edges_in_batches on the index it is handed.
SyncPhases == <<"load_vertices", "load_edges", "upload_vertices", "upload_edges", "done">>

UploadKinds == {"upload_vertices", "upload_edges"}

InitSync ==
    /\ s_variant \in {"g1", "v1"}
    /\ s_pages \in 1..MaxSyncPages
    /\ s_nv \in 0..MaxSyncRequests
    /\ s_ne \in 0..MaxSyncRequests
    \* run_graph_upload_checked starts with the upload of the vertices
    /\ s_pc = IF s_variant = "g1" THEN "load_vertices" ELSE "upload_vertices"
    /\ s_left = IF s_variant = "g1" THEN s_pages ELSE s_nv
    /\ s_flying = [k \in UploadKinds |-> 0]
    /\ s_issued = [k \in UploadKinds |-> 0]

IdleSync ==
    /\ s_variant = "none"
    /\ s_pages = 0
    /\ s_nv = 0
    /\ s_ne = 0
    /\ s_pc = "off"
    /\ s_left = 0
    /\ s_flying = [k \in UploadKinds |-> 0]
    /\ s_issued = [k \in UploadKinds |-> 0]

\* The requests the function that follows pc has to send.
PhaseRequests(pc) ==
    CASE pc \in {"load_vertices", "load_edges"} -> s_pages
      [] pc = "upload_vertices" -> s_nv
      [] pc = "upload_edges" -> s_ne
      [] OTHER -> 0

NextPhase(pc) ==
    CASE pc = "load_vertices" -> "load_edges"
      [] pc = "load_edges" -> "upload_vertices"
      [] pc = "upload_vertices" -> "upload_edges"
      [] OTHER -> "done"

\* load_existing_graph: "result_set = client.submit(query)" and
\* "result_set.all().result()": one page requested and read.
SyncLoadPage ==
    /\ s_pc \in {"load_vertices", "load_edges"}
    /\ s_left > 0
    /\ s_left' = s_left - 1
    /\ UNCHANGED <<sparams, s_pc, s_flying, s_issued>>
    /\ UNCHANGED notSync

\* The loop of the running function is over: the next call of run_graph_upload.
SyncEndPhase ==
    /\ s_pc \in {"load_vertices", "load_edges", "upload_vertices", "upload_edges"}
    /\ s_left = 0
    /\ s_pc' = NextPhase(s_pc)
    /\ s_left' = PhaseRequests(NextPhase(s_pc))
    /\ UNCHANGED <<sparams, s_flying, s_issued>>
    /\ UNCHANGED notSync

\* gremlin_v1.upload_vertices / upload_edges: "client.submit(query)" followed by
\* "result_set.all().result()": the call returns when the result has arrived.
G1SubmitAndRead ==
    /\ s_variant = "g1"
    /\ s_pc \in UploadKinds
    /\ s_left > 0
    /\ s_left' = s_left - 1
    /\ s_issued' = [s_issued EXCEPT ![s_pc] = @ + 1]
    /\ UNCHANGED <<sparams, s_pc, s_flying>>
    /\ UNCHANGED notSync

\* upload_v1: "rs = client.submit(gremlin)" and no read of the result: the loop
\* goes on while the request is still with the store.
V1Submit ==
    /\ s_variant = "v1"
    /\ s_pc \in UploadKinds
    /\ s_left > 0
    /\ s_left' = s_left - 1
    /\ s_issued' = [s_issued EXCEPT ![s_pc] = @ + 1]
    /\ s_flying' = [s_flying EXCEPT ![s_pc] = @ + 1]
    /\ UNCHANGED <<sparams, s_pc>>
    /\ UNCHANGED notSync

\* The store completes a request that nobody waits for.
V1Complete ==
    /\ \E k \in UploadKinds :
          /\ s_flying[k] > 0
          /\ s_flying' = [s_flying EXCEPT ![k] = @ - 1]
    /\ UNCHANGED <<sparams, s_pc, s_left, s_issued>>
    /\ UNCHANGED notSync

NextSync ==
    \/ SyncLoadPage
    \/ SyncEndPhase
    \/ G1SubmitAndRead
    \/ V1Submit
    \/ V1Complete

\* ================================================================== worker pool
\* parallel_delete_2: parallel_delete_edges, then parallel_delete_vertices, on one
\* shared throttler.  Every batch costs PoolCost.
Workers == 1..MaxWorkers

Kinds == {"edges", "vertices"}

\* The charge of a batch: status_attributes.get('x-ms-total-request-charge', 10.0),
\* in units of the default.
PoolCost == 1

InitPool ==
    /\ p_workers \in 1..MaxWorkers
    \* all_vertex_ids is handed over when parallel_delete_vertices is called
    /\ \E n \in 0..MaxPoolBatches : p_batches = [k \in Kinds |-> IF k = "edges" THEN n ELSE 0]
    /\ p_max_retries = MaxRetries
    \* the limit is a whole number of batch charges
    /\ ru_limit = MaxRuLimit
    /\ p_main = "edges"
    \* "futures = [executor.submit(_drop_batch, batch) for batch in chunked(...)]"
    /\ p_queued = [k \in Kinds |-> IF k = "edges" THEN p_batches[k] ELSE 0]
    /\ p_finished = [k \in Kinds |-> 0]
    /\ p_deleted = [k \in Kinds |-> 0]
    /\ pw_pc = [w \in Workers |-> "idle"]
    /\ pw_kind = [w \in Workers |-> "none"]
    /\ pw_attempt = [w \in Workers |-> 0]
    /\ pw_count = [w \in Workers |-> 0]
    /\ pw_tmp = [w \in Workers |-> 0]
    /\ pw_wake = [w \in Workers |-> 0]
    /\ p_recorded = 0
    /\ p_failures = 0

IdlePool ==
    /\ p_workers = 0
    /\ p_batches = [k \in Kinds |-> 0]
    /\ p_max_retries = 0
    /\ p_main = "off"
    /\ p_queued = [k \in Kinds |-> 0]
    /\ p_finished = [k \in Kinds |-> 0]
    /\ p_deleted = [k \in Kinds |-> 0]
    /\ pw_pc = [w \in Workers |-> "idle"]
    /\ pw_kind = [w \in Workers |-> "none"]
    /\ pw_attempt = [w \in Workers |-> 0]
    /\ pw_count = [w \in Workers |-> 0]
    /\ pw_tmp = [w \in Workers |-> 0]
    /\ pw_wake = [w \in Workers |-> 0]
    /\ p_recorded = 0
    /\ p_failures = 0

\* What a step of one worker leaves alone besides its own fields.
PoolFrame == UNCHANGED <<pparams, p_main, ru_limit, charges, slept, thist>>

\* The threads of the pool are alike: the idle thread of the lowest number takes
\* the next future.
FirstIdle(w) == \A v \in Workers : (v < w) => pw_pc[v] # "idle"

\* The function returning once every future has been started, without waiting
\* for the ones that still run.
SomeFinished(kind) == p_queued[kind] = 0

\* "for _ in as_completed(futures): pass" and the exit of the with block: every
\* future of the function is done.
AllFinished(kind) == p_finished[kind] = p_batches[kind]

\* A thread of the pool starts the next queued future.
PoolTake(w) ==
    /\ w <= p_workers
    /\ pw_pc[w] = "idle"
    /\ FirstIdle(w)
    /\ \E k \in Kinds :
          /\ p_queued[k] > 0
          /\ p_queued' = [p_queued EXCEPT ![k] = @ - 1]
          /\ pw_kind' = [pw_kind EXCEPT ![w] = k]
    /\ pw_pc' = [pw_pc EXCEPT ![w] = "submit"]
    /\ PoolFrame
    /\ UNCHANGED <<now, window_start, ru_consumed, p_finished, p_deleted, pw_attempt,
                   pw_count, pw_tmp, pw_wake, p_recorded, p_failures>>
    /\ UNCHANGED notPool

\* "rs = client.submit(...)", "rs.all().result()": the drop succeeded; the worker
\* enters throttler.throttle and reads ru_consumed for "self.ru_consumed += ru".
PoolSubmitOk(w) ==
    /\ pw_pc[w] = "submit"
    /\ pw_tmp' = [pw_tmp EXCEPT ![w] = ru_consumed]
    /\ pw_pc' = [pw_pc EXCEPT ![w] = "store"]
    /\ PoolFrame
    /\ UNCHANGED <<now, window_start, ru_consumed, p_queued, p_finished, p_deleted,
                   pw_kind, pw_attempt, pw_count, pw_wake, p_recorded, p_failures>>
    /\ UNCHANGED notPool

\* "except GremlinServerError": a 429 is retried while attempts are left; any
\* other error, or the last attempt, leaves the loop with count = 0.
PoolSubmitFail(w) ==
    /\ pw_pc[w] = "submit"
    /\ p_failures < MaxPoolFailures
    /\ p_failures' = p_failures + 1
    /\ \E signal \in {"429", "TooManyRequests", "GraphTimeoutException", "other"} :
          IF signal \in {"429", "TooManyRequests"} /\ pw_attempt[w] + 1 < p_max_retries
          THEN /\ pw_attempt' = [pw_attempt EXCEPT ![w] = @ + 1]
               /\ UNCHANGED pw_pc
          ELSE /\ pw_pc' = [pw_pc EXCEPT ![w] = "lock"]
               /\ UNCHANGED pw_attempt
    /\ PoolFrame
    /\ UNCHANGED <<now, window_start, ru_consumed, p_queued, p_finished, p_deleted,
                   pw_kind, pw_count, pw_tmp, pw_wake, p_recorded>>
    /\ UNCHANGED notPool

\* throttle, "self.ru_consumed += ru": the write of the sum.
PoolThrottleStore(w) ==
    /\ pw_pc[w] = "store"
    /\ ru_consumed' = pw_tmp[w] + PoolCost
    /\ p_recorded' = p_recorded + PoolCost
    /\ pw_pc' = [pw_pc EXCEPT ![w] = "check"]
    /\ pw_tmp' = [pw_tmp EXCEPT ![w] = 0]
    /\ PoolFrame
    /\ UNCHANGED <<now, window_start, p_queued, p_finished, p_deleted, pw_kind,
                   pw_attempt, pw_count, pw_wake, p_failures>>
    /\ UNCHANGED notPool

\* throttle, "elapsed = time.time() - self.window_start" and the if / elif.
PoolThrottleCheck(w) ==
    /\ pw_pc[w] = "check"
    /\ LET elapsed == now - window_start
           branch  == ThrottleBranch(ru_consumed, elapsed)
       IN  /\ pw_pc' = [pw_pc EXCEPT ![w] = IF branch = "sleep" THEN "sleep" ELSE "lock"]
           \* throttle returns: "count = len(batch_ids)", "break"
           /\ pw_count' = [pw_count EXCEPT ![w] = IF branch = "sleep" THEN @ ELSE 1]
           /\ pw_wake' = [pw_wake EXCEPT ![w] =
                             IF branch = "sleep" THEN now + (Second - elapsed) ELSE @]
           /\ window_start' = IF branch = "reset" THEN now ELSE window_start
           /\ ru_consumed' = IF branch = "reset" THEN 0 ELSE ru_consumed
           /\ p_recorded' = IF branch = "reset" THEN 0 ELSE p_recorded
    /\ PoolFrame
    /\ UNCHANGED <<now, p_queued, p_finished, p_deleted, pw_kind, pw_attempt, pw_tmp,
                   p_failures>>
    /\ UNCHANGED notPool

\* throttle, after "time.sleep(1.0 - elapsed)": "self.window_start = time.time()",
\* "self.ru_consumed = 0.0"; throttle returns: "count = len(batch_ids)", "break".
PoolThrottleWake(w) ==
    /\ pw_pc[w] = "sleep"
    /\ now >= pw_wake[w]
    /\ window_start' = now
    /\ ru_consumed' = 0
    /\ p_recorded' = 0
    /\ pw_pc' = [pw_pc EXCEPT ![w] = "lock"]
    /\ pw_count' = [pw_count EXCEPT ![w] = 1]
    /\ pw_wake' = [pw_wake EXCEPT ![w] = 0]
    /\ PoolFrame
    /\ UNCHANGED <<now, p_queued, p_finished, p_deleted, pw_kind, pw_attempt, pw_tmp,
                   p_failures>>
    /\ UNCHANGED notPool

\* "with lock: deleted += count", "return count": the future is done.
PoolLocked(w) ==
    /\ pw_pc[w] = "lock"
    /\ p_deleted' = [p_deleted EXCEPT ![pw_kind[w]] = @ + pw_count[w]]
    /\ p_finished' = [p_finished EXCEPT ![pw_kind[w]] = @ + 1]
    /\ pw_pc' = [pw_pc EXCEPT ![w] = "idle"]
    \* the locals of the call are gone
    /\ pw_kind' = [pw_kind EXCEPT ![w] = "none"]
    /\ pw_attempt' = [pw_attempt EXCEPT ![w] = 0]
    /\ pw_count' = [pw_count EXCEPT ![w] = 0]
    /\ PoolFrame
    /\ UNCHANGED <<now, window_start, ru_consumed, p_queued, pw_tmp, pw_wake,
                   p_recorded, p_failures>>
    /\ UNCHANGED notPool

\* parallel_delete_edges returns and the caller calls parallel_delete_vertices,
\* which submits its batches to a pool of its own; parallel_delete_vertices
\* returns.
PoolReturn ==
    /\ p_main \in Kinds
    /\ AllFinished(p_main)
    /\ IF p_main = "edges"
       THEN /\ p_main' = "vertices"
            /\ \E n \in 0..MaxPoolBatches :
                  /\ p_batches' = [p_batches EXCEPT !["vertices"] = n]
                  /\ p_queued' = [p_queued EXCEPT !["vertices"] = n]
       ELSE /\ p_main' = "done"
            /\ UNCHANGED <<p_batches, p_queued>>
    /\ UNCHANGED <<p_workers, p_max_retries, tvars, p_finished, p_deleted, pw_pc, pw_kind, pw_attempt,
                   pw_count, pw_tmp, pw_wake, p_recorded, p_failures>>
    /\ UNCHANGED notPool

\* Time passes.  The clock is read by the check and by the end of the sleep of
\* throttle only, so time is advanced when a worker is about to read it.
PoolTick ==
    /\ \E w \in Workers : pw_pc[w] \in {"check", "sleep"}
    /\ now < MaxPoolTime
    /\ now' = now + 1
    /\ UNCHANGED <<ru_limit, window_start, ru_consumed, charges, slept, thist, pvars>>
    /\ UNCHANGED notPool

NextPool ==
    \/ \E w \in Workers :
          \/ PoolTake(w)
          \/ PoolSubmitOk(w)
          \/ PoolSubmitFail(w)
          \/ PoolThrottleStore(w)
          \/ PoolThrottleCheck(w)
          \/ PoolThrottleWake(w)
          \/ PoolLocked(w)
    \/ PoolReturn
    \/ PoolTick

\* ================================================================== known ids
\* delete_v1 / delete_v4: delete_vertices_in_batches(client, throttler, vertex_ids,
\* batch_size), "for batch in chunked(vertex_ids, batch_size)".
InitChunk ==
    /\ k_variant \in {"d1", "d4"}
    /\ \E n \in 0..MaxIds : k_ids = [i \in 1..n |-> i]
    /\ k_batch \in 1..MaxChunk
    /\ k_rest = k_ids
    /\ k_deleted = 0
    /\ k_pc = "loop"
    /\ k_sent = <<>>
    /\ k_batches = <<>>
    /\ k_failures = 0

IdleChunk ==
    /\ k_variant = "none"
    /\ k_ids = <<>>
    /\ k_batch = 0
    /\ k_rest = <<>>
    /\ k_deleted = 0
    /\ k_pc = "off"
    /\ k_sent = <<>>
    /\ k_batches = <<>>
    /\ k_failures = 0

\* A chunking that yields full batches only.
ChunkFullOnly(rest, size) == IF Len(rest) >= size THEN Take(rest, size) ELSE <<>>

\* A chunking that takes one item more than the size asked for.
ChunkOneMore(rest, size) == Take(rest, size + 1)

\* chunked: "batch = list(islice(it, size))"
Chunk(rest, size) == Take(rest, size)

\* One turn of the loop whose request succeeds: the batch is sent and counted.
ChunkDropOk ==
    /\ k_pc = "loop"
    /\ LET batch == Chunk(k_rest, k_batch)
       IN  /\ batch # <<>>
           /\ k_sent' = Append(k_sent, Len(batch))
           /\ k_batches' = Append(k_batches, batch)
           /\ k_deleted' = k_deleted + Len(batch)
           /\ k_rest' = Drop(k_rest, Len(batch))
    /\ UNCHANGED <<kparams, k_pc, k_failures>>
    /\ UNCHANGED notChunk

\* One turn of the loop whose request fails.  delete_v4: "except
\* GremlinServerError", the batch is printed and not counted.  delete_v1 has no
\* try and does not read the result: an error raised by client.submit leaves the
\* function, an error of the store stays unread and the batch is counted.
ChunkDropFail ==
    /\ k_pc = "loop"
    /\ k_failures < MaxChunkFailures
    /\ k_failures' = k_failures + 1
    /\ LET batch == Chunk(k_rest, k_batch)
       IN  /\ batch # <<>>
           /\ k_sent' = Append(k_sent, Len(batch))
           /\ k_batches' = Append(k_batches, batch)
           /\ k_rest' = Drop(k_rest, Len(batch))
           /\ IF k_variant = "d4"
              THEN UNCHANGED <<k_deleted, k_pc>>
              ELSE \/ /\ k_pc' = "raised"
                      /\ UNCHANGED k_deleted
                   \/ /\ k_deleted' = k_deleted + Len(batch)
                      /\ UNCHANGED k_pc
    /\ UNCHANGED kparams
    /\ UNCHANGED notChunk

\* chunked: "if not batch: return"; the loop ends, "return deleted".
ChunkReturn ==
    /\ k_pc = "loop"
    /\ Chunk(k_rest, k_batch) = <<>>
    /\ k_pc' = "returned"
    /\ UNCHANGED <<kparams, k_rest, k_deleted, k_sent, k_batches, k_failures>>
    /\ UNCHANGED notChunk

NextChunk == ChunkDropOk \/ ChunkDropFail \/ ChunkReturn

\* ================================================================== retry loop of a batch
RetryVariants == {"pd2", "pu1"}

InitRetry ==
    /\ r_variant \in RetryVariants
    /\ r_max_retries \in 1..MaxBatchRetries
    /\ r_backoff_base \in 1..MaxBackoffBase
    /\ r_len \in 1..MaxBatchLen
    /\ r_attempt = 0
    /\ r_count = 0
    /\ r_pc = "try"
    /\ r_counted = 0
    /\ r_delays = <<>>
    /\ r_errors = <<>>

IdleRetry ==
    /\ r_variant = "none"
    /\ r_max_retries = 0
    /\ r_backoff_base = 0
    /\ r_len = 0
    /\ r_attempt = 0
    /\ r_count = 0
    /\ r_pc = "off"
    /\ r_counted = 0
    /\ r_delays = <<>>
    /\ r_errors = <<>>

\* The texts the except clause looks for in the message of the error.
RetrySignals == {"429", "TooManyRequests", "GraphTimeoutException", "other"}

\* "if '429' in msg or 'TooManyRequests' in msg" (parallel_delete_2), with
\* "or 'GraphTimeoutException' in msg" added in parallel_upload_1.
RetryTransient(variant, signal) ==
    IF variant = "pd2"
    THEN signal \in {"429", "TooManyRequests"}
    ELSE signal \in {"429", "TooManyRequests", "GraphTimeoutException"}

\* A wait that grows by backoff_base with every attempt.
BackoffWaitLinear(base, k) == base * (k + 1)

\* "wait = backoff_base * (2 ** attempt)"
BackoffWait(base, k) == base * Pow2(k)

\* The try block ran through: "count = len(batch_ids); break".
RetrySubmitOk ==
    /\ r_pc = "try"
    /\ r_count' = r_len
    /\ r_pc' = "lock"
    /\ UNCHANGED <<rparams, r_attempt, r_counted, r_delays, r_errors>>
    /\ UNCHANGED notRetry

\* "except GremlinServerError": a transient signal sleeps and continues with the
\* next attempt of "for attempt in range(max_retries)", any other breaks.
RetrySubmitFail ==
    /\ r_pc = "try"
    /\ \E signal \in RetrySignals :
          /\ r_errors' = Append(r_errors, signal)
          /\ IF RetryTransient(r_variant, signal)
             THEN /\ r_delays' = Append(r_delays, BackoffWait(r_backoff_base, r_attempt))
                  /\ r_attempt' = r_attempt + 1
                  /\ r_pc' = IF r_attempt + 1 < r_max_retries THEN "try" ELSE "lock"
             ELSE /\ r_pc' = "lock"
                  /\ UNCHANGED <<r_delays, r_attempt>>
    /\ UNCHANGED <<rparams, r_count, r_counted>>
    /\ UNCHANGED notRetry

\* "with lock: deleted += count ... return count"
RetryCounted ==
    /\ r_pc = "lock"
    /\ r_counted' = r_counted + r_count
    /\ r_pc' = "returned"
    /\ UNCHANGED <<rparams, r_attempt, r_count, r_delays, r_errors>>
    /\ UNCHANGED notRetry

NextRetry == RetrySubmitOk \/ RetrySubmitFail \/ RetryCounted

\* ================================================================== shared index
\* The set of uploaded keys, inserted_vertex_ids, under the worker pools that
\* upload vertices: loader_and_uploader_250711.parallel_upload_vertices ("lu"),
\* parallel_upload_1.parallel_upload_vertices ("pu1") and
\* parallel_upload_df_v2.parallel_upload_vertices ("df2").  Thread 0 is the
\* thread that called the function, the others are the threads of the pool.
IndexVariants == {"lu", "pu1", "df2"}
Threads == 0..MaxWorkers

\* chunked(tasks, batch_size)
RECURSIVE Chunked(_, _)
Chunked(s, n) == IF s = <<>> THEN <<>> ELSE <<Take(s, n)>> \o Chunked(Drop(s, n), n)

\* The keys of the rows that pass the filter "if key not in inserted_vertex_ids".
NotIn(rows, index) == SelectSeq(rows, LAMBDA key : key \notin index)

InitIndex ==
    /\ i_variant \in IndexVariants
    /\ i_workers \in 1..MaxWorkers
    /\ i_batch \in 1..MaxIndexBatch
    /\ i_max_retries = MaxRetries
    /\ \E n \in 0..MaxIndexKeys :
          /\ i_index \in SUBSET (1..n)
          \* df2 submits one future per row
          /\ i_queue = Chunked(NotIn([k \in 1..n |-> k], i_index),
                               IF i_variant = "df2" THEN 1 ELSE i_batch)
    /\ i_lock = {}
    /\ i_writers = {}
    /\ i_uploaded = 0
    /\ i_results = <<>>
    /\ i_failures = 0
    /\ it_pc = [t \in Threads |-> IF t = 0 THEN "wait" ELSE "idle"]
    /\ it_batch = [t \in Threads |-> <<>>]
    /\ it_count = [t \in Threads |-> 0]
    /\ it_attempt = [t \in Threads |-> 0]

IdleIndex ==
    /\ i_variant = "none"
    /\ i_workers = 0
    /\ i_batch = 0
    /\ i_max_retries = 0
    /\ i_index = {}
    /\ i_queue = <<>>
    /\ i_lock = {}
    /\ i_writers = {}
    /\ i_uploaded = 0
    /\ i_results = <<>>
    /\ i_failures = 0
    /\ it_pc = [t \in Threads |-> "off"]
    /\ it_batch = [t \in Threads |-> <<>>]
    /\ it_count = [t \in Threads |-> 0]
    /\ it_attempt = [t \in Threads |-> 0]

\* The error signals the retry loop of each uploader retries.
IndexTransient(variant, signal) ==
    IF variant = "lu"
    THEN signal \in {"429", "GraphTimeoutException"}
    ELSE signal \in {"429", "TooManyRequests", "GraphTimeoutException"}

\* Where a worker of "lu" goes once it is through with the key at the head of
\* its batch: to the next key, or past the "for r, key in batch" loop.
AfterKey(rest) == IF rest = <<>> THEN "lock" ELSE "submit"

\* A thread of the pool starts the next queued future; the idle thread of the
\* lowest number takes it.
IndexTake(w) ==
    /\ w \in 1..i_workers
    /\ it_pc[w] = "idle"
    /\ \A v \in 1..(w - 1) : it_pc[v] # "idle"
    /\ i_queue # <<>>
    /\ it_batch' = [it_batch EXCEPT ![w] = Head(i_queue)]
    /\ i_queue' = Tail(i_queue)
    /\ it_pc' = [it_pc EXCEPT ![w] = "submit"]
    /\ UNCHANGED <<iparams, i_index, i_lock, i_writers, i_uploaded, i_results,
                   i_failures, it_count, it_attempt>>
    /\ UNCHANGED notIndex

\* "rs = client.submit(...)", "rs.all().result()", throttle: the request
\* succeeded.  lu: "count += 1", then inserted_vertex_ids.add(key);
\* pu1: "count = len(batch)", "break"; df2: "count = 1", "break".
IndexSubmitOk(w) ==
    /\ w \in 1..i_workers
    /\ it_pc[w] = "submit"
    /\ it_count' = [it_count EXCEPT ![w] =
                       CASE i_variant = "lu"  -> @ + 1
                         [] i_variant = "pu1" -> Len(it_batch[w])
                         [] OTHER             -> 1]
    /\ it_pc' = [it_pc EXCEPT ![w] =
                       CASE i_variant = "lu"  -> "add"
                         [] i_variant = "pu1" -> "lock"
                         [] OTHER             -> "return"]
    /\ UNCHANGED <<iparams, i_index, i_queue, i_lock, i_writers, i_uploaded,
                   i_results, i_failures, it_batch, it_attempt>>
    /\ UNCHANGED notIndex

\* "except GremlinServerError": a transient signal is retried while attempts
\* are left; otherwise the loop is left without a count for the request.
IndexSubmitFail(w) ==
    /\ w \in 1..i_workers
    /\ it_pc[w] = "submit"
    /\ i_failures < MaxIndexFailures
    /\ i_failures' = i_failures + 1
    /\ \E signal \in RetrySignals :
          IF IndexTransient(i_variant, signal) /\ it_attempt[w] + 1 < i_max_retries
          THEN /\ it_attempt' = [it_attempt EXCEPT ![w] = @ + 1]
               /\ UNCHANGED <<it_pc, it_batch>>
          ELSE IF i_variant = "lu"
               THEN /\ it_batch' = [it_batch EXCEPT ![w] = Tail(@)]
                    /\ it_pc' = [it_pc EXCEPT ![w] = AfterKey(Tail(it_batch[w]))]
                    /\ it_attempt' = [it_attempt EXCEPT ![w] = 0]
               ELSE /\ it_pc' = [it_pc EXCEPT ![w] =
                                    IF i_variant = "pu1" THEN "lock" ELSE "return"]
                    /\ UNCHANGED <<it_batch, it_attempt>>
    /\ UNCHANGED <<iparams, i_index, i_queue, i_lock, i_writers, i_uploaded,
                   i_results, it_count>>
    /\ UNCHANGED notIndex

\* df2: "return count, id_val"; the future is done and as_completed yields it.
IndexReturn(w) ==
    /\ w \in 1..i_workers
    /\ it_pc[w] = "return"
    /\ i_results' = Append(i_results, <<it_count[w], Head(it_batch[w])>>)
    /\ it_pc' = [it_pc EXCEPT ![w] = "idle"]
    /\ it_batch' = [it_batch EXCEPT ![w] = <<>>]
    /\ it_count' = [it_count EXCEPT ![w] = 0]
    /\ it_attempt' = [it_attempt EXCEPT ![w] = 0]
    /\ UNCHANGED <<iparams, i_index, i_queue, i_lock, i_writers, i_uploaded,
                   i_failures>>
    /\ UNCHANGED notIndex

\* df2, the calling thread: "for future in as_completed(futures):",
\* "count, vid_val = future.result()"; the id is added "if count".
IndexCompleted ==
    /\ i_variant = "df2"
    /\ it_pc[0] = "wait"
    /\ i_results # <<>>
    /\ LET result == Head(i_results)
       IN  /\ it_count' = [it_count EXCEPT ![0] = result[1]]
           /\ it_batch' = [it_batch EXCEPT ![0] =
                              IF result[1] > 0 THEN <<result[2]>> ELSE <<>>]
    /\ i_results' = Tail(i_results)
    /\ it_pc' = [it_pc EXCEPT ![0] = "lock"]
    /\ UNCHANGED <<iparams, i_index, i_queue, i_lock, i_writers, i_uploaded,
                   i_failures, it_attempt>>
    /\ UNCHANGED notIndex

\* "with lock:" is entered.  pu1: "for v in batch[:count]".
IndexAcquire(t) ==
    /\ t \in 0..i_workers
    /\ it_pc[t] = "lock"
    /\ i_lock = {}
    /\ i_lock' = {t}
    /\ it_pc' = [it_pc EXCEPT ![t] = "locked"]
    /\ it_batch' = [it_batch EXCEPT ![t] =
                       IF i_variant = "pu1" THEN Take(@, it_count[t]) ELSE @]
    /\ UNCHANGED <<iparams, i_index, i_queue, i_writers, i_uploaded, i_results,
                   i_failures, it_count, it_attempt>>
    /\ UNCHANGED notIndex

\* A thread enters inserted_vertex_ids.add(key): in lu right after the request
\* of the key, in pu1 and df2 inside the with block.
IndexAddBegin(t) ==
    /\ t \in 0..i_workers
    /\ \/ it_pc[t] = "add"
       \/ it_pc[t] = "locked" /\ it_batch[t] # <<>>
    /\ i_writers' = i_writers \cup {t}
    /\ it_pc' = [it_pc EXCEPT ![t] = "adding"]
    /\ UNCHANGED <<iparams, i_index, i_queue, i_lock, i_uploaded, i_results,
                   i_failures, it_batch, it_count, it_attempt>>
    /\ UNCHANGED notIndex

\* The add returns: the key is in the set.  lu: "break", on to the next key of
\* the batch; pu1, df2: on inside the with block.
IndexAddEnd(t) ==
    /\ t \in 0..i_workers
    /\ it_pc[t] = "adding"
    /\ i_index' = i_index \cup {Head(it_batch[t])}
    /\ i_writers' = i_writers \ {t}
    /\ it_batch' = [it_batch EXCEPT ![t] = Tail(@)]
    /\ it_pc' = [it_pc EXCEPT ![t] =
                    IF i_variant = "lu" THEN AfterKey(Tail(it_batch[t])) ELSE "locked"]
    /\ it_attempt' = [it_attempt EXCEPT ![t] = IF i_variant = "lu" THEN 0 ELSE @]
    /\ UNCHANGED <<iparams, i_queue, i_lock, i_uploaded, i_results, i_failures,
                   it_count>>
    /\ UNCHANGED notIndex

\* "uploaded += count" and the end of the with block; a worker returns and its
\* future is done, the calling thread goes on to the next completed future.
IndexRelease(t) ==
    /\ t \in 0..i_workers
    /\ it_pc[t] = "locked"
    /\ it_batch[t] = <<>>
    /\ i_uploaded' = i_uploaded + it_count[t]
    /\ i_lock' = {}
    /\ it_pc' = [it_pc EXCEPT ![t] = IF t = 0 THEN "wait" ELSE "idle"]
    /\ it_count' = [it_count EXCEPT ![t] = 0]
    /\ it_attempt' = [it_attempt EXCEPT ![t] = 0]
    /\ UNCHANGED <<iparams, i_index, i_queue, i_writers, i_results, i_failures,
                   it_batch>>
    /\ UNCHANGED notIndex

\* Every future is done and consumed: "return inserted_vertex_ids".
IndexFinish ==
    /\ it_pc[0] = "wait"
    /\ i_queue = <<>>
    /\ i_results = <<>>
    /\ \A w \in 1..i_workers : it_pc[w] = "idle"
    /\ it_pc' = [it_pc EXCEPT ![0] = "returned"]
    /\ UNCHANGED <<iparams, i_index, i_queue, i_lock, i_writers, i_uploaded,
                   i_results, i_failures, it_batch, it_count, it_attempt>>
    /\ UNCHANGED notIndex

NextIndex ==
    \/ \E t \in Threads :
          \/ IndexTake(t)
          \/ IndexSubmitOk(t)
          \/ IndexSubmitFail(t)
          \/ IndexReturn(t)
          \/ IndexAcquire(t)
          \/ IndexAddBegin(t)
          \/ IndexAddEnd(t)
          \/ IndexRelease(t)
    \/ IndexCompleted
    \/ IndexFinish

\* ================================================================== shared counter
\* The counter "deleted" of parallel_delete_1.parallel_delete_edges ("pd1", one
\* attempt per batch) and parallel_delete_2.parallel_delete_edges ("pd2", a
\* retry loop per batch), updated by the threads of the pool.
CountVariants == {"pd1", "pd2"}

\* A lock that is handed to every thread that asks for it.
LockIgnored(holders) == holders = holders

\* The lock can be taken.
LockFree(holders) == holders = {}

InitCount ==
    /\ n_variant \in CountVariants
    /\ n_workers \in 1..MaxWorkers
    /\ n_total \in 0..MaxCountIds
    /\ n_batch \in 1..MaxCountBatch
    /\ n_max_retries = MaxRetries
    \* "futures = [executor.submit(_drop_batch, batch) for batch in chunked(...)]"
    /\ n_queue = [b \in 1..Len(Chunked([k \in 1..n_total |-> k], n_batch)) |->
                     Len(Chunked([k \in 1..n_total |-> k], n_batch)[b])]
    /\ n_lock = {}
    /\ n_deleted = 0
    /\ n_succeeded = 0
    /\ n_failures = 0
    /\ n_main = "wait"
    /\ nt_pc = [w \in Workers |-> "idle"]
    /\ nt_len = [w \in Workers |-> 0]
    /\ nt_count = [w \in Workers |-> 0]
    /\ nt_attempt = [w \in Workers |-> 0]
    /\ nt_tmp = [w \in Workers |-> 0]

IdleCount ==
    /\ n_variant = "none"
    /\ n_workers = 0
    /\ n_total = 0
    /\ n_batch = 0
    /\ n_max_retries = 0
    /\ n_queue = <<>>
    /\ n_lock = {}
    /\ n_deleted = 0
    /\ n_succeeded = 0
    /\ n_failures = 0
    /\ n_main = "off"
    /\ nt_pc = [w \in Workers |-> "off"]
    /\ nt_len = [w \in Workers |-> 0]
    /\ nt_count = [w \in Workers |-> 0]
    /\ nt_attempt = [w \in Workers |-> 0]
    /\ nt_tmp = [w \in Workers |-> 0]

\* A thread of the pool starts the next queued future; the idle thread of the
\* lowest number takes it.
CountTake(w) ==
    /\ w \in 1..n_workers
    /\ nt_pc[w] = "idle"
    /\ \A v \in 1..(w - 1) : nt_pc[v] # "idle"
    /\ n_queue # <<>>
    /\ nt_len' = [nt_len EXCEPT ![w] = Head(n_queue)]
    /\ n_queue' = Tail(n_queue)
    /\ nt_pc' = [nt_pc EXCEPT ![w] = "submit"]
    /\ UNCHANGED <<nparams, n_lock, n_deleted, n_succeeded, n_failures, n_main,
                   nt_count, nt_attempt, nt_tmp>>
    /\ UNCHANGED notCount

\* "rs.all().result()" returns, throttle: "count = len(batch_ids)".
CountSubmitOk(w) ==
    /\ w \in 1..n_workers
    /\ nt_pc[w] = "submit"
    /\ nt_count' = [nt_count EXCEPT ![w] = nt_len[w]]
    /\ n_succeeded' = n_succeeded + nt_len[w]
    /\ nt_pc' = [nt_pc EXCEPT ![w] = "lock"]
    /\ UNCHANGED <<nparams, n_queue, n_lock, n_deleted, n_failures, n_main, nt_len,
                   nt_attempt, nt_tmp>>
    /\ UNCHANGED notCount

\* "except GremlinServerError".  pd1: "count = 0".  pd2: a 429 is retried while
\* attempts are left, otherwise the loop is left with the "count = 0" it began
\* with.
CountSubmitFail(w) ==
    /\ w \in 1..n_workers
    /\ nt_pc[w] = "submit"
    /\ n_failures < MaxCountFailures
    /\ n_failures' = n_failures + 1
    /\ \E signal \in RetrySignals :
          IF /\ n_variant = "pd2"
             /\ RetryTransient(n_variant, signal)
             /\ nt_attempt[w] + 1 < n_max_retries
          THEN /\ nt_attempt' = [nt_attempt EXCEPT ![w] = @ + 1]
               /\ UNCHANGED nt_pc
          ELSE /\ nt_pc' = [nt_pc EXCEPT ![w] = "lock"]
               /\ UNCHANGED nt_attempt
    /\ UNCHANGED <<nparams, n_queue, n_lock, n_deleted, n_succeeded, n_main, nt_len,
                   nt_count, nt_tmp>>
    /\ UNCHANGED notCount

\* "with deleted_lock:" / "with lock:" is entered.
CountAcquire(w) ==
    /\ w \in 1..n_workers
    /\ nt_pc[w] = "lock"
    /\ LockFree(n_lock)
    /\ n_lock' = n_lock \cup {w}
    /\ nt_pc' = [nt_pc EXCEPT ![w] = "read"]
    /\ UNCHANGED <<nparams, n_queue, n_deleted, n_succeeded, n_failures, n_main,
                   nt_len, nt_count, nt_attempt, nt_tmp>>
    /\ UNCHANGED notCount

\* pd1: "nonlocal_deleted = deleted + count"; pd2: the read of "deleted += count".
CountRead(w) ==
    /\ w \in 1..n_workers
    /\ nt_pc[w] = "read"
    /\ nt_tmp' = [nt_tmp EXCEPT ![w] = n_deleted + nt_count[w]]
    /\ nt_pc' = [nt_pc EXCEPT ![w] = "write"]
    /\ UNCHANGED <<nparams, n_queue, n_lock, n_deleted, n_succeeded, n_failures,
                   n_main, nt_len, nt_count, nt_attempt>>
    /\ UNCHANGED notCount

\* pd1: "deleted = nonlocal_deleted"; pd2: the write of "deleted += count".
\* The with block ends, "return count": the future is done.
CountWrite(w) ==
    /\ w \in 1..n_workers
    /\ nt_pc[w] = "write"
    /\ n_deleted' = nt_tmp[w]
    /\ n_lock' = n_lock \ {w}
    /\ nt_pc' = [nt_pc EXCEPT ![w] = "idle"]
    /\ nt_len' = [nt_len EXCEPT ![w] = 0]
    /\ nt_count' = [nt_count EXCEPT ![w] = 0]
    /\ nt_attempt' = [nt_attempt EXCEPT ![w] = 0]
    /\ nt_tmp' = [nt_tmp EXCEPT ![w] = 0]
    /\ UNCHANGED <<nparams, n_queue, n_succeeded, n_failures, n_main>>
    /\ UNCHANGED notCount

\* "for f in as_completed(futures): pass" ends: "return deleted".
CountReturn ==
    /\ n_main = "wait"
    /\ n_queue = <<>>
    /\ \A w \in 1..n_workers : nt_pc[w] = "idle"
    /\ n_main' = "returned"
    /\ UNCHANGED <<nparams, n_queue, n_lock, n_deleted, n_succeeded, n_failures,
                   nt_pc, nt_len, nt_count, nt_attempt, nt_tmp>>
    /\ UNCHANGED notCount

NextCount ==
    \/ \E w \in Workers :
          \/ CountTake(w)
          \/ CountSubmitOk(w)
          \/ CountSubmitFail(w)
          \/ CountAcquire(w)
          \/ CountRead(w)
          \/ CountWrite(w)
    \/ CountReturn

\* ================================================================== delete-all loop
\* The loop of one discover-and-delete phase with no bound on the failures of
\* the store: delete_v5.delete_all_edges_in_batches ("v5"),
\* delete_v3.delete_all_edges_in_batches ("v3") and
\* gremlin_v3.delete_all_edges_batched ("g3").  No history is kept, so a loop
\* that does not end is a cycle of states.
DrainVariants == {"v5", "v3", "g3"}

InitDrain ==
    /\ d_variant \in DrainVariants
    /\ d_batch \in 1..MaxDrainBatch
    /\ d_max_retries \in 1..MaxRetries
    /\ d_left \in 0..MaxDrainEdges
    \* gremlin_v3 drops with "g.E().limit(n).drop()" and fetches no ids
    /\ d_pc = IF d_variant = "g3" THEN "drop" ELSE "fetch"
    /\ d_attempt = 0
    /\ d_ids = 0

IdleDrain ==
    /\ d_variant = "none"
    /\ d_batch = 0
    /\ d_max_retries = 0
    /\ d_left = 0
    /\ d_pc = "off"
    /\ d_attempt = 0
    /\ d_ids = 0

\* "g.E().limit(batch_size).id()" answered: "if not ids: break", "return deleted".
DrainFetchOk ==
    /\ d_pc = "fetch"
    /\ d_ids' = Min(d_batch, d_left)
    /\ d_pc' = IF Min(d_batch, d_left) = 0 THEN "returned" ELSE "drop"
    /\ d_attempt' = 0
    /\ UNCHANGED <<dparams, d_left>>
    /\ UNCHANGED notDrain

\* The fetch failed.  v5: a transient signal is retried, with the attempts used
\* up the loop is left ("aborting", break), any other error is raised.  v3: the
\* fetch is in no try block.
DrainFetchFail ==
    /\ d_pc = "fetch"
    /\ \E signal \in Signals :
          IF d_variant = "v5" /\ signal \in {"429", "GraphTimeoutException"}
          THEN IF d_attempt + 1 < d_max_retries
               THEN d_attempt' = d_attempt + 1 /\ UNCHANGED d_pc
               ELSE d_attempt' = 0 /\ d_pc' = "returned"
          ELSE d_attempt' = 0 /\ d_pc' = "raised"
    /\ UNCHANGED <<dparams, d_left, d_ids>>
    /\ UNCHANGED notDrain

\* The drop succeeded.  v5, v3: on to the next fetch.  g3: "total_deleted +=
\* batch_size" and the next turn of "while True", whether or not an edge was
\* left to drop.
DrainDropOk ==
    /\ d_pc = "drop"
    /\ d_left' = d_left - (IF d_variant = "g3" THEN Min(d_batch, d_left) ELSE d_ids)
    /\ d_pc' = IF d_variant = "g3" THEN "drop" ELSE "fetch"
    /\ d_attempt' = 0
    /\ d_ids' = 0
    /\ UNCHANGED dparams
    /\ UNCHANGED notDrain

\* The drop failed.  v5: a transient signal is retried; with the attempts used
\* up the for loop ends and the while loop goes on with the next fetch; any
\* other error is raised.  v3: the error is printed and the while loop goes
\* on.  g3: "except Exception": break.
DrainDropFail ==
    /\ d_pc = "drop"
    /\ \E signal \in Signals :
          CASE d_variant = "v5" ->
                  IF signal \in {"429", "GraphTimeoutException"}
                  THEN IF d_attempt + 1 < d_max_retries
                       THEN d_attempt' = d_attempt + 1 /\ UNCHANGED <<d_pc, d_ids>>
                       ELSE d_attempt' = 0 /\ d_pc' = "fetch" /\ d_ids' = 0
                  ELSE d_attempt' = 0 /\ d_pc' = "raised" /\ UNCHANGED d_ids
            [] d_variant = "v3" ->
                  d_attempt' = 0 /\ d_pc' = "fetch" /\ d_ids' = 0
            [] OTHER ->
                  d_attempt' = 0 /\ d_pc' = "returned" /\ UNCHANGED d_ids
    /\ UNCHANGED <<dparams, d_left>>
    /\ UNCHANGED notDrain

NextDrain == DrainFetchOk \/ DrainFetchFail \/ DrainDropOk \/ DrainDropFail

\* ================================================================== charged cost
\* The cost each loop hands to throttler.throttle after a request:
\* delete_v1.delete_vertices_in_batches ("d1"),
\* node_edge_checked_v1.upload_vertices_checked ("nc1", its addV request) and
\* gremlin_v1.upload_vertices ("g1").

\* attrs.get('x-ms-total-request-charge', 10.0)
DefaultCost == 10
\* The store reported no charge: the key is not in status_attributes.
NoReport == 0

ChargeVariants == {"d1", "nc1", "g1"}

\* What the store may report for a request.
Reports == {NoReport, DefaultCost \div 2, DefaultCost, 2 * DefaultCost}

\* The costs of the throttle calls a loop makes after a request that succeeded
\* and for which the store reported the given charge.
Charged(variant, reported) ==
    CASE variant = "d1"  -> <<IF reported = NoReport THEN DefaultCost ELSE reported>>
      [] variant = "nc1" -> IF reported = NoReport THEN <<>> ELSE <<reported>>
      [] OTHER           -> <<DefaultCost>>

InitCharge ==
    /\ q_variant \in ChargeVariants
    /\ q_left \in 0..MaxChargeRows
    /\ q_pc = "loop"
    /\ q_calls = <<>>
    /\ q_failures = 0

IdleCharge ==
    /\ q_variant = "none"
    /\ q_left = 0
    /\ q_pc = "off"
    /\ q_calls = <<>>
    /\ q_failures = 0

\* One turn of the loop whose request succeeds.
ChargeRequestOk ==
    /\ q_pc = "loop"
    /\ q_left > 0
    /\ \E reported \in Reports :
          q_calls' = Append(q_calls, [ok |-> TRUE, reported |-> reported,
                                      charged |-> Charged(q_variant, reported)])
    /\ q_left' = q_left - 1
    /\ UNCHANGED <<q_variant, q_pc, q_failures>>
    /\ UNCHANGED notCharge

\* One turn of the loop whose request fails.  nc1, g1: "except
\* GremlinServerError", the error is logged, throttle is not called.  d1 has no
\* try and does not read the result: an error raised by client.submit leaves
\* the function, an error of the store stays unread and throttle is called as
\* after a success.
ChargeRequestFail ==
    /\ q_pc = "loop"
    /\ q_left > 0
    /\ q_failures < MaxChargeFailures
    /\ q_failures' = q_failures + 1
    /\ IF q_variant = "d1"
       THEN \/ /\ q_pc' = "raised"
               /\ UNCHANGED <<q_calls, q_left>>
            \/ /\ \E reported \in Reports :
                     q_calls' = Append(q_calls, [ok |-> FALSE, reported |-> reported,
                                                 charged |-> Charged(q_variant, reported)])
               /\ q_left' = q_left - 1
               /\ UNCHANGED q_pc
       ELSE /\ q_calls' = Append(q_calls, [ok |-> FALSE, reported |-> NoReport,
                                           charged |-> <<>>])
            /\ q_left' = q_left - 1
            /\ UNCHANGED q_pc
    /\ UNCHANGED q_variant
    /\ UNCHANGED notCharge

\* The loop is through with its rows.
ChargeReturn ==
    /\ q_pc = "loop"
    /\ q_left = 0
    /\ q_pc' = "returned"
    /\ UNCHANGED <<q_variant, q_left, q_calls, q_failures>>
    /\ UNCHANGED notCharge

NextCharge == ChargeRequestOk \/ ChargeRequestFail \/ ChargeReturn

\* ================================================================== edge keys
\* The upload filter of the edges over ids and labels that may hold the
\* characters the key is built with: upload_v2.upload_edges_in_batches ("u2")
\* after load_existing_continuation.load_existing_edges, and
\* gremlin_v1.upload_edges ("g1") after gremlin_v1.load_existing_edges.

KeyVariants == {"u2", "g1"}

\* str(row["OutV"]), str(row["Label"]), str(row["InV"]): any strings.
KeyIds == {"a", "a_b", "a-b"}
KeyLabels == {"c", "b_c", "b-c"}
KeyEdges == {[out |-> o, label |-> l, in |-> "d"] : o \in KeyIds, l \in KeyLabels}

InitKey ==
    /\ ek_variant \in KeyVariants
    /\ ek_batch \in 1..MaxKeyBatch
    /\ ek_store \in {S \in SUBSET KeyEdges : Cardinality(S) <= 1}
    /\ ek_pending \in SeqsUpTo(KeyEdges, MaxKeyEdges)
    \* the loader has run: the keys of the edges the store holds
    /\ ek_index = {UploadEdgeKey(ek_variant, e) : e \in ek_store}
    /\ ek_pc = IF ek_variant = "u2" THEN "filter" ELSE "rows"
    /\ ek_todo = IF ek_variant = "u2" THEN <<>> ELSE ek_pending
    /\ ek_skipped = {}
    /\ ek_failures = 0

IdleKey ==
    /\ ek_variant = "none"
    /\ ek_batch = 1
    /\ ek_store = {}
    /\ ek_pending = <<>>
    /\ ek_index = {}
    /\ ek_pc = "off"
    /\ ek_todo = <<>>
    /\ ek_skipped = {}
    /\ ek_failures = 0

\* upload_v2: to_insert = [e for e in edges if key(e) not in inserted_edge_keys]
KeyFilter ==
    /\ ek_pc = "filter"
    /\ ek_todo' = SelectSeq(ek_pending,
                            LAMBDA e : UploadEdgeKey(ek_variant, e) \notin ek_index)
    /\ ek_skipped' = {e \in Range(ek_pending) :
                          UploadEdgeKey(ek_variant, e) \in ek_index}
    /\ ek_pc' = "upload"
    /\ UNCHANGED <<ek_variant, ek_batch, ek_store, ek_pending, ek_index, ek_failures>>
    /\ UNCHANGED notKey

\* upload_v2: one batch of to_insert is submitted, its keys are added.
KeyUploadBatch ==
    /\ ek_pc = "upload"
    /\ ek_todo # <<>>
    /\ ek_store' = ek_store \cup Range(Take(ek_todo, ek_batch))
    /\ ek_index' = ek_index \cup
                     {UploadEdgeKey(ek_variant, e) : e \in Range(Take(ek_todo, ek_batch))}
    /\ ek_todo' = Drop(ek_todo, ek_batch)
    /\ UNCHANGED <<ek_variant, ek_batch, ek_pending, ek_pc, ek_skipped, ek_failures>>
    /\ UNCHANGED notKey

\* gremlin_v1: one row; "if edge_id in inserted_edge_keys: continue", else the
\* edge is submitted and its key added.
KeyRow ==
    /\ ek_pc = "rows"
    /\ ek_todo # <<>>
    /\ IF UploadEdgeKey(ek_variant, Head(ek_todo)) \in ek_index
       THEN /\ ek_skipped' = ek_skipped \cup {Head(ek_todo)}
            /\ UNCHANGED <<ek_store, ek_index>>
       ELSE /\ ek_store' = ek_store \cup {Head(ek_todo)}
            /\ ek_index' = ek_index \cup {UploadEdgeKey(ek_variant, Head(ek_todo))}
            /\ UNCHANGED ek_skipped
    /\ ek_todo' = Tail(ek_todo)
    /\ UNCHANGED <<ek_variant, ek_batch, ek_pending, ek_pc, ek_failures>>
    /\ UNCHANGED notKey

\* A request fails.  gremlin_v1: the error is logged, the key is not added, the
\* loop goes on with the next row.  upload_v2: no try, the error leaves the
\* function.
KeyFail ==
    /\ ek_todo # <<>>
    /\ ek_failures < MaxKeyFailures
    /\ ek_failures' = ek_failures + 1
    /\ \/ /\ ek_pc = "rows"
          /\ UploadEdgeKey(ek_variant, Head(ek_todo)) \notin ek_index
          /\ ek_todo' = Tail(ek_todo)
          /\ UNCHANGED ek_pc
       \/ /\ ek_pc = "upload"
          /\ ek_pc' = "raised"
          /\ UNCHANGED ek_todo
    /\ UNCHANGED <<ek_variant, ek_batch, ek_store, ek_pending, ek_index, ek_skipped>>
    /\ UNCHANGED notKey

KeyReturn ==
    /\ ek_pc \in {"rows", "upload"}
    /\ ek_todo = <<>>
    /\ ek_pc' = "returned"
    /\ UNCHANGED <<ek_variant, ek_batch, ek_store, ek_pending, ek_index, ek_todo,
                   ek_skipped, ek_failures>>
    /\ UNCHANGED notKey

NextKey == KeyFilter \/ KeyUploadBatch \/ KeyRow \/ KeyFail \/ KeyReturn

\* ================================================================== specifications
IdleExtra == IdleSync /\ IdlePool /\ IdleChunk /\ IdleRetry /\ IdleIndex /\ IdleCount /\ IdleDrain /\ IdleCharge /\ IdleKey

InitSpecThrottle == InitThrottle /\ IdleWalk /\ IdleClear /\ IdleUpload /\ IdleExtra
SpecThrottle == InitSpecThrottle /\ [][NextThrottle]_vars
\* The throttler under a wall clock that may be set back at any time.
SpecClock == InitSpecThrottle /\ [][NextClock]_vars

InitSpecWalk == IdleThrottle /\ InitWalk /\ IdleClear /\ IdleUpload /\ IdleExtra
SpecWalk == InitSpecWalk /\ [][NextWalk]_vars

InitSpecClear == IdleThrottle /\ IdleWalk /\ InitClear /\ IdleUpload /\ IdleExtra
SpecClear == InitSpecClear /\ [][NextClear]_vars

InitSpecUpload == IdleThrottle /\ IdleWalk /\ IdleClear /\ InitUpload /\ IdleExtra
SpecUpload == InitSpecUpload /\ [][NextUpload]_vars

InitSpecSync ==
    /\ IdleThrottle /\ IdleWalk /\ IdleClear /\ IdleUpload
    /\ InitSync /\ IdlePool /\ IdleChunk /\ IdleRetry /\ IdleIndex /\ IdleCount /\ IdleDrain /\ IdleCharge /\ IdleKey
SpecSync == InitSpecSync /\ [][NextSync]_vars

InitSpecPool ==
    /\ InitThrottle /\ IdleWalk /\ IdleClear /\ IdleUpload
    /\ IdleSync /\ InitPool /\ IdleChunk /\ IdleRetry /\ IdleIndex /\ IdleCount /\ IdleDrain /\ IdleCharge /\ IdleKey
SpecPool == InitSpecPool /\ [][NextPool]_vars

InitSpecChunk ==
    /\ IdleThrottle /\ IdleWalk /\ IdleClear /\ IdleUpload
    /\ IdleSync /\ IdlePool /\ InitChunk /\ IdleRetry /\ IdleIndex /\ IdleCount /\ IdleDrain /\ IdleCharge /\ IdleKey
SpecChunk == InitSpecChunk /\ [][NextChunk]_vars

InitSpecRetry ==
    /\ IdleThrottle /\ IdleWalk /\ IdleClear /\ IdleUpload
    /\ IdleSync /\ IdlePool /\ IdleChunk /\ InitRetry /\ IdleIndex /\ IdleCount /\ IdleDrain /\ IdleCharge /\ IdleKey
SpecRetry == InitSpecRetry /\ [][NextRetry]_vars

InitSpecIndex ==
    /\ IdleThrottle /\ IdleWalk /\ IdleClear /\ IdleUpload
    /\ IdleSync /\ IdlePool /\ IdleChunk /\ IdleRetry /\ InitIndex /\ IdleCount /\ IdleDrain /\ IdleCharge /\ IdleKey
SpecIndex == InitSpecIndex /\ [][NextIndex]_vars

InitSpecCount ==
    /\ IdleThrottle /\ IdleWalk /\ IdleClear /\ IdleUpload
    /\ IdleSync /\ IdlePool /\ IdleChunk /\ IdleRetry /\ IdleIndex /\ InitCount /\ IdleDrain /\ IdleCharge /\ IdleKey
SpecCount == InitSpecCount /\ [][NextCount]_vars

InitSpecDrain ==
    /\ IdleThrottle /\ IdleWalk /\ IdleClear /\ IdleUpload
    /\ IdleSync /\ IdlePool /\ IdleChunk /\ IdleRetry /\ IdleIndex /\ IdleCount
    /\ InitDrain /\ IdleCharge /\ IdleKey
\* The loop always takes its next step; which answer the store gives is not
\* constrained.
SpecDrain == InitSpecDrain /\ [][NextDrain]_vars /\ WF_vars(NextDrain)

InitSpecCharge ==
    /\ IdleThrottle /\ IdleWalk /\ IdleClear /\ IdleUpload
    /\ IdleSync /\ IdlePool /\ IdleChunk /\ IdleRetry /\ IdleIndex /\ IdleCount
    /\ IdleDrain /\ InitCharge /\ IdleKey
SpecCharge == InitSpecCharge /\ [][NextCharge]_vars

InitSpecKey ==
    /\ IdleThrottle /\ IdleWalk /\ IdleClear /\ IdleUpload
    /\ IdleSync /\ IdlePool /\ IdleChunk /\ IdleRetry /\ IdleIndex /\ IdleCount
    /\ IdleDrain /\ IdleCharge /\ InitKey
SpecKey == InitSpecKey /\ [][NextKey]_vars

\* ================================================================== claims
CeilDiv(a, b) == (a + b - 1) \div b

NoDuplicates(s) == \A i, j \in 1..Len(s) : s[i] = s[j] => i = j

StrictlyIncreasing(s) == \A i, j \in 1..Len(s) : i < j => s[i] < s[j]

\* C1: the sum of the costs recorded inside any single 1-second interval never
\* exceeds ru_limit.
C1_BudgetInvariant == SumCosts(charges) <= ru_limit

\* C2: in a full clear no vertex-delete request is submitted before an edge page
\* fetch has returned an empty page.
C2_EdgesBeforeVertices == vertex_drop_sent => edge_walk_exhausted

\* C3: with no remote failure the keyset walk ends after at most
\* ceil(N / batch_size) + 1 requests, and the pages it consumed hold every vertex
\* of the collection exactly once.
C3_KeysetCoverage ==
    (w_variant = "keyset" /\ w_failures = 0) =>
        /\ Len(requested) <= CeilDiv(Cardinality(items), batch_size) + 1
        /\ NoDuplicates(pages)
        /\ w_pc = "returned" => Range(pages) = items /\ inserted = items

C3_Witness ==
    /\ w_variant = "keyset"
    /\ w_failures = 0
    /\ w_pc = "returned"
    /\ Cardinality(items) = 3
    /\ batch_size = 2
    /\ Len(requested) = 3

\* C4: with no remote failure, and a next-token with every page but the last, a
\* token walk that has returned consumed every item exactly once.
C4_TokenCoverage ==
    (w_variant \in {"token", "token_v2", "token_edges"} /\ w_failures = 0
        /\ w_pc = "returned") =>
        /\ NoDuplicates(pages)
        /\ Range(pages) = items

\* C5: with no remote failure the offset walk requests the offsets 0, P, 2P, ...,
\* stops at the first empty page, and the pages it consumed hold every item
\* exactly once.
C5_OffsetCoverage ==
    (w_variant = "offset" /\ w_failures = 0) =>
        /\ \A i \in 1..Len(requested) : requested[i] = (i - 1) * batch_size
        /\ Len(requested) <= CeilDiv(Cardinality(items), batch_size) + 1
        /\ NoDuplicates(pages)
        /\ w_pc = "returned" =>
              /\ pages = StoreSeq
              /\ inserted = items
              /\ Len(requested) = CeilDiv(Cardinality(items), batch_size) + 1
              /\ OffsetPage(requested[Len(requested)], batch_size) = <<>>

C5_Witness ==
    /\ w_variant = "offset"
    /\ w_failures = 0
    /\ w_pc = "returned"
    /\ Cardinality(items) = 3
    /\ batch_size = 2
    /\ requested = <<0, 2, 4>>

\* C6: when no request fails, the second of two successive runs over the same
\* pending vertices and edges issues no upload request.
C6_SecondRunUploadsNothing == u_failures = 0 => requests[2] = 0

C6_Witness ==
    /\ u_pc = "done"
    /\ run = 2
    /\ u_failures = 0
    /\ requests[1] >= 2
    /\ pending_e # <<>>
    /\ Range(pending_e) \subseteq store_e
    /\ Range(pending_v) \subseteq store_v

\* C7: a step whose upload request failed with a fatal error leaves both sets of
\* the Dedup Index as they were.
C7_FatalBatchAddsNoKey ==
    [][last_outcome' = "fatal" =>
          UNCHANGED <<inserted_vertex_ids, inserted_edge_keys>>]_vars


\* C8: a request that fails with a transient error on every attempt is sent at
\* most max_retries times, and each backoff delay is longer than the one before.
C8_RetryBound ==
    /\ page_attempts <= max_retries
    /\ StrictlyIncreasing(delays)

\* C9: the items of a drop batch that was given up after max_retries transient
\* errors are not added to the deleted count: in the clears that read the result
\* of every drop (delete_v5, delete_v4) the count of each phase is the number of
\* entities whose drop succeeded.
C9_AbandonedNotCounted ==
    c_variant \in {"v5", "v4"} => \A p \in Phases : deleted[p] = dropped[p]

\* C10: a walk returns normally only if it ended on its last page.
C10_CompleteOnlyOnLastPage ==
    w_pc = "returned" => w_end = "last_page"

\* C11: a request that fails with a fatal error is not sent again, and the error
\* is raised to the caller at once: the step that meets the fatal error leaves the
\* upload function.
C11_FatalRaisedAtOnce ==
    [][last_outcome' = "fatal" => u_pc' = "raised"]_vars

\* C12: no upload request is issued before both loads have ended, and no
\* edge-upload request is issued while a vertex-upload request has not completed.
C12_PhaseOrder ==
    /\ (s_issued["upload_vertices"] + s_issued["upload_edges"] > 0) =>
          s_pc \in {"upload_vertices", "upload_edges", "done"}
    /\ s_issued["upload_edges"] > 0 => s_flying["upload_vertices"] = 0

\* A worker is inside throttler.throttle.
InThrottle(w) == pw_pc[w] \in {"store", "check", "sleep"}

\* C13: the throttle calls of the workers exclude one another on the window
\* state, no charge is lost (ru_consumed holds every cost recorded since the window
\* was last reset), and the cost recorded in one window never exceeds ru_limit.
C13_SerializedThrottle ==
    /\ Cardinality({w \in Workers : InThrottle(w)}) <= 1
    /\ ru_consumed >= p_recorded
    /\ p_recorded <= ru_limit

\* C14: a vertex-deletion batch is queued or run only once every edge-deletion
\* batch has finished, and parallel_delete_edges has returned only then.
C14_EdgesFinishedFirst ==
    ((p_main \in {"vertices", "done"})
        \/ p_queued["vertices"] > 0
        \/ (\E w \in Workers : pw_pc[w] # "idle" /\ pw_kind[w] = "vertices")) =>
        /\ p_finished["edges"] = p_batches["edges"]
        /\ p_queued["edges"] = 0
        /\ \A w \in Workers : pw_pc[w] # "idle" => pw_kind[w] # "edges"

C14_Witness ==
    /\ p_workers = 2
    /\ p_batches["edges"] = 2
    /\ p_batches["vertices"] = 2
    /\ \E w \in Workers : pw_pc[w] = "submit" /\ pw_kind[w] = "vertices"
    /\ p_deleted["edges"] = 2

\* C15: when every request succeeds, deleting N known ids with batch size B sends
\* requests of B ids each and a last one of the N mod B ids that remain,
\* ceil(N / B) requests in all, and returns N.
C15_ChunkedDelete ==
    (k_pc \in {"loop", "returned"} /\ k_failures = 0) =>
        /\ \A i \in 1..Len(k_sent) :
              k_sent[i] = Min(k_batch, Len(k_ids) - (i - 1) * k_batch)
        /\ Len(k_sent) <= CeilDiv(Len(k_ids), k_batch)
        /\ k_pc = "returned" =>
              /\ Len(k_sent) = CeilDiv(Len(k_ids), k_batch)
              /\ k_deleted = Len(k_ids)

C15_Witness ==
    /\ k_pc = "returned"
    /\ k_failures = 0
    /\ Len(k_ids) = 5
    /\ k_batch = 2
    /\ k_sent = <<2, 2, 1>>
    /\ k_deleted = 5

C17_ClearCountsWhatWasThere ==
    c_failures = 0 =>
        /\ \A p \in Phases : deleted[p] <= present[p]
        /\ c_pc = "done" =>
              \A p \in Phases : left[p] = 0 /\ deleted[p] = present[p]

RECURSIVE SumSeq(_)
SumSeq(s) == IF s = <<>> THEN 0 ELSE Head(s) + SumSeq(Tail(s))

\* C18: a throttle call sleeps if and only if, once its cost has been added,
\* ru_consumed >= ru_limit and less than one second has elapsed since
\* window_start; the call that sleeps is the first call of its window whose
\* running total reaches ru_limit, so with calls of one same cost c it is call
\* number ceil(ru_limit / c) of the window (limit 100, cost 30: the 4th), and it
\* sleeps for what is left of the window's second at least.
C18_SleepsIffLimitReached ==
    total_ops > 0 =>
        /\ (slept > 0) <=> (t_last.consumed >= ru_limit /\ t_last.elapsed < Second)
        /\ t_last.consumed = SumSeq(t_last.calls)
        /\ slept > 0 =>
              /\ \A i \in 1..(Len(t_last.calls) - 1) :
                    SumSeq(SubSeq(t_last.calls, 1, i)) < ru_limit
              /\ (\A i \in 1..Len(t_last.calls) : t_last.calls[i] = t_last.ru) =>
                    Len(t_last.calls) = CeilDiv(ru_limit, t_last.ru)
              /\ slept >= Second - t_last.elapsed

C18_Witness ==
    /\ ru_limit = 3
    /\ total_ops = 3
    /\ t_last.calls = <<1, 1, 1>>
    /\ t_last.elapsed < Second
    /\ slept > 0
    /\ ru_consumed = 0

\* C19: in a throttle call the reset follows the sleep: a call that sleeps
\* returns with window_start at the time it woke up and ru_consumed at 0, and a
\* call that finds a second or more elapsed resets the window in the same way
\* without sleeping, whatever its cost.
C19_ResetFollowsSleep ==
    [][total_ops' = total_ops + 1 =>
          /\ slept' > 0 => (window_start' = now' /\ ru_consumed' = 0)
          /\ now - window_start >= Second =>
                /\ slept' = 0
                /\ now' = now
                /\ window_start' = now'
                /\ ru_consumed' = 0]_vars

C19_Witness ==
    /\ total_ops > 1
    /\ t_last.elapsed >= Second
    /\ t_last.consumed >= ru_limit
    /\ slept = 0
    /\ window_start = now
    /\ ru_consumed = 0

\* C20: a throttle call only delays: it sleeps at most once, and neither the time
\* it asks time.sleep for nor the time it sleeps is more than one second.
C20_SleepsAtMostOneSecond ==
    total_ops > 0 =>
        /\ t_last.requested <= Second
        /\ slept <= Second

\* C21: with a single caller, once a throttle call has returned ru_consumed is
\* below ru_limit and not negative, and no step moves window_start backwards.
C21_WindowInvariant ==
    [][/\ total_ops' > 0 => (0 <= ru_consumed' /\ ru_consumed' < ru_limit')
       /\ window_start' >= window_start]_vars

\* C22: the wait slept after the k-th failed transient attempt (k = 0, 1, ...)
\* of a batch is backoff_base * 2^k; a batch that succeeds after n transient
\* failures has slept backoff_base * (2^n - 1) in all and is counted in full
\* (two failures, backoff_base 1: 1 + 2 = 3 seconds).
C22_ExponentialBackoff ==
    /\ \A k \in 1..Len(r_delays) : r_delays[k] = r_backoff_base * Pow2(k - 1)
    /\ (r_pc = "returned" /\ r_count = r_len) =>
          /\ Len(r_delays) = Len(r_errors)
          /\ SumSeq(r_delays) = r_backoff_base * (Pow2(Len(r_errors)) - 1)
          /\ r_counted = r_len

C22_Witness ==
    /\ r_pc = "returned"
    /\ r_max_retries = 3
    /\ r_backoff_base = 1
    /\ r_errors = <<"429", "429">>
    /\ r_delays = <<1, 2>>
    /\ r_counted = r_len

\* C23: a keyset walk over N items with page size B, N not a multiple of B and no
\* failure, fetches ceil(N / B) pages, the last one short, and has moved its
\* cursor ceil(N / B) - 1 times when it returns (1,050 items, pages of 500:
\* three fetches of 500, 500 and 50 items, two updates of the cursor).
C23_KeysetThreePages ==
    (/\ w_variant = "keyset"
     /\ w_failures = 0
     /\ w_pc = "returned"
     /\ Cardinality(items) % batch_size # 0) =>
        /\ Len(requested) = CeilDiv(Cardinality(items), batch_size)
        /\ Cardinality(Range(requested) \ {0}) = CeilDiv(Cardinality(items), batch_size) - 1

\* C24: a timeout signal is retried like a rate-limit signal: an attempt of a
\* batch that fails with either of them is followed by a backoff sleep, and by a
\* further attempt while attempts are left; it never leaves the retry loop at
\* once.
C24_TimeoutRetriedLikeThrottle ==
    [][(/\ Len(r_errors') = Len(r_errors) + 1
        /\ r_errors'[Len(r_errors')] \in {"429", "GraphTimeoutException"}) =>
          /\ r_delays' = Append(r_delays, BackoffWait(r_backoff_base, r_attempt))
          /\ r_attempt + 1 < r_max_retries => r_pc' = "try"]_vars

\* The floor of the page size of each walk that shrinks its pages.
PageFloor ==
    IF w_variant = "token_v2" THEN minimal_batch ELSE HardMinimalBatch

\* C25: a step of a continuation-token walk that changes the page size sets it
\* to max(floor, current \div 2), the new size is not above the old one and it
\* is not below the floor.
C25_PageSizeShrinks ==
    [][(w_variant \in {"token", "token_v2"} /\ current_batch' # current_batch) =>
          /\ current_batch' = Max(PageFloor, current_batch \div 2)
          /\ current_batch' <= current_batch
          /\ current_batch' >= PageFloor]_vars

\* C26: a successful fetch of a continuation-token walk ends the walk exactly
\* when the page it fetched carries no next-token; a page with a next-token,
\* one that holds no items included, leaves the walk at its next fetch.
C26_EndsOnlyWithoutToken ==
    [][(/\ w_variant \in {"token", "token_v2"}
        /\ Len(requested') = Len(requested) + 1
        /\ w_failures' = w_failures) =>
          (w_pc' = "returned" <=>
              NextToken(continuation, Len(pages') - Len(pages)) = 0)]_vars

\* C27: in the token walk over the vertices an error of the store that is not a
\* timeout, such as the rejection of the continuation token, ends the walk with
\* the error raised: the walk does not return its set of keys, and once the
\* error is raised no request follows and the walk stays ended.
C27_RejectedTokenIsFatal ==
    [][/\ (w_variant = "token" /\ w_signal' = "other") =>
              (w_pc' = "raised" /\ w_end' = "raised")
       /\ (w_variant = "token" /\ w_pc = "raised") =>
              (w_pc' = "raised" /\ requested' = requested)]_vars

\* The store rejected the token of the second request, after a page of keys
\* was gathered.
C27_Witness ==
    /\ w_variant = "token"
    /\ w_signal = "other"
    /\ inserted # {}
    /\ continuation # 0
    /\ requested[Len(requested)] = continuation
    /\ w_pc = "raised"

\* The cursor of each walk.
Cursor ==
    CASE w_variant = "keyset" -> last_graph_id
      [] w_variant = "offset" -> offset
      [] OTHER                -> continuation

\* C28: a failed request leaves the cursor and the items gathered as they were
\* and was sent for the cursor's position, as was the failed request before it
\* for the same page; the cursor moves only in a step whose request succeeded;
\* a walk that ends on its last page has gathered every item once,
\* whatever requests failed on the way.
C28_FailedFetchKeepsCursor ==
    [][/\ w_failures' = w_failures + 1 =>
            /\ UNCHANGED <<last_graph_id, continuation, offset, inserted, pages>>
            /\ requested' = Append(requested, Cursor)
            /\ page_attempts > 0 => requested[Len(requested)] = Cursor
       /\ <<last_graph_id, continuation, offset>>' # <<last_graph_id, continuation, offset>> =>
            /\ w_failures' = w_failures
            /\ requested' = Append(requested, Cursor)
       /\ w_end' = "last_page" =>
            /\ Range(pages') = items
            /\ NoDuplicates(pages')]_vars

\* A walk that retried a page after the first one and went on to its last page.
C28_Witness ==
    /\ w_pc = "returned"
    /\ w_end = "last_page"
    /\ w_failures > 0
    /\ \E i \in 2..(Len(requested) - 1) :
          requested[i] # 0 /\ requested[i + 1] = requested[i]
    /\ Range(pages) = items

\* A batch of the pool is done without being counted: its worker left the retry
\* loop on a fatal error or with its attempts used up.
BatchFailed == \E k \in Kinds : p_finished[k] > p_deleted[k]

\* C29: once a batch of the pool has failed no thread of the pool starts a
\* further batch, and the function that runs the pool does not return as on
\* success.
C29_FailureStopsPool ==
    [][BatchFailed => (p_queued' = p_queued /\ p_main' = p_main)]_vars

\* C30: every addition to the shared set of uploaded keys is made by a thread
\* that holds the lock, so that no two threads are inside an addition at the
\* same time.
C30_IndexWritesUnderLock ==
    /\ \A t \in i_writers : i_lock = {t}
    /\ Cardinality(i_writers) <= 1

\* C31: a worker reads and writes the shared counter only while it holds the
\* lock; the counter never exceeds the sizes of the batches whose drop
\* succeeded, which never exceed the number of ids submitted; once every worker
\* is through, and in the value the function returns, the counter equals the
\* sum of the sizes of the batches whose drop succeeded.
C31_CounterUnderLock ==
    /\ \A w \in Workers : nt_pc[w] \in {"read", "write"} => n_lock = {w}
    /\ n_deleted <= n_succeeded
    /\ n_succeeded <= n_total
    /\ n_main = "returned" => n_deleted = n_succeeded

\* Two workers ran three batches, one of which failed; the function returned
\* the sizes of the other two.
C31_Witness ==
    /\ n_main = "returned"
    /\ n_workers = 2
    /\ Len(Chunked([k \in 1..n_total |-> k], n_batch)) = 3
    /\ n_failures > 0
    /\ n_deleted = 2
    /\ n_deleted < n_total

\* C32: no step of a load or of an upload, whether its request succeeded,
\* failed or was a retry, takes a key out of the set of vertex ids or out of
\* the set of edge keys.
C32_IndexOnlyGrows ==
    [][/\ inserted_vertex_ids \subseteq inserted_vertex_ids'
       /\ inserted_edge_keys \subseteq inserted_edge_keys']_vars

\* A second batch was added to the vertex ids after a request had failed.
C32_Witness ==
    /\ u_failures > 0
    /\ Cardinality(inserted_vertex_ids) = 2
    /\ Cardinality(known) < 2
    /\ Len(uploads) = 2
    /\ u_batch = 1
    /\ run = 1

\* C33: every vertex id in the index is the id of a vertex of the store, and
\* every edge key in the index is the key of an edge of the store.
C33_IndexedKeysExist ==
    /\ inserted_vertex_ids \subseteq store_v
    /\ inserted_edge_keys \subseteq {UploadEdgeKey(u_variant, e) : e \in store_e}

\* C34: in a run in which no request failed the vertex ids submitted for
\* creation hold no id twice, whatever the pending input holds.
C34_NoKeySubmittedTwice == u_failures = 0 => NoDuplicates(uploads)

\* C35: the loop of a delete-all phase reaches its end, returned or raised,
\* whatever answers the store gives.
C35_PhaseTerminates == <>(d_pc \in {"returned", "raised"})

\* The items of a sequence of batches, in order.
RECURSIVE Flatten(_)
Flatten(batches) ==
    IF batches = <<>> THEN <<>> ELSE Head(batches) \o Flatten(Tail(batches))

\* C36: every batch chunked has yielded is non-empty and holds at most size
\* items; the batches yielded so far, put end to end, followed by what the
\* iterator has not yielded yet, are the input, so no item is in two batches
\* and the order is kept; once the iterator is exhausted the batches put end
\* to end are the input.
C36_ChunkedPartitions ==
    /\ \A i \in 1..Len(k_batches) :
          k_batches[i] # <<>> /\ Len(k_batches[i]) <= k_batch
    /\ Flatten(k_batches) \o k_rest = k_ids
    /\ NoDuplicates(Flatten(k_batches))
    /\ k_pc = "returned" => Flatten(k_batches) = k_ids

\* Five items in batches of two.
C36_Witness ==
    /\ k_pc = "returned"
    /\ k_ids = <<1, 2, 3, 4, 5>>
    /\ k_batch = 2
    /\ k_batches = <<<<1, 2>>, <<3, 4>>, <<5>>>>

\* C37: every request that succeeded was followed by one throttle call, whose
\* cost is the charge the store reported for the request, or the default cost
\* when the store reported none.
C37_ThrottledWithReportedCost ==
    \A i \in 1..Len(q_calls) :
        q_calls[i].ok =>
            q_calls[i].charged =
                <<IF q_calls[i].reported = NoReport
                  THEN DefaultCost ELSE q_calls[i].reported>>

\* C38: two different edges never get the same key, and so an edge the upload
\* filter left out is an edge the store holds: it was never left out because of
\* the key of another edge.
C38_EdgeKeyInjective ==
    /\ \A e1, e2 \in KeyEdges :
          e1 # e2 => UploadEdgeKey(ek_variant, e1) # UploadEdgeKey(ek_variant, e2)
    /\ ek_skipped \subseteq ek_store
====
